---- MODULE Spec2Model ----
(***************************************************************************)
(* A model of the wa-svc gateway daemon: the webhook Emitter               *)
(* (internal/webhook/emitter.go), the Service Manager and its state        *)
(* machine (internal/service/manager.go, state.go) and the ingest path of  *)
(* the sync worker.  Several next-state relations share one module; each   *)
(* specification moves only its own group of variables.                    *)
(***************************************************************************)
EXTENDS Naturals, Integers, Sequences, FiniteSets, Bags, TLC

(***************************************************************************)
(* Bounds of the model.                                                    *)
(***************************************************************************)
\* events pushed through Emit in one run
NumEvents == 5
\* capacity of the emitter queue (make(chan *queuedEvent, 1000)), scaled down
QueueCap == 3
\* size of the worker pool (maxWorkers = 4), scaled down
NumWorkers == 2
\* largest configured WASVC_WEBHOOK_RETRIES drawn in Init
MaxCfgRetries == 2

\* calls of Manager.Start in one run
MaxStarts == 1
\* ingest event handlers the sync worker registers in one run
MaxHandlers == 2
\* distinct QR strings the pairing flow emits
MaxQR == 2
\* largest configured WASVC_WEBHOOK_RETRIES in the delivery of one event
MaxDeliverRetries == 56
\* calls of the setters of the state machine followed with its listeners
MaxChanges == 3

Events == 1..NumEvents

Min(a, b) == IF a < b THEN a ELSE b

(***************************************************************************)
(* Webhook Emitter: state.                                                 *)
(***************************************************************************)
VARIABLES
  url,          \* e.config.URL: "" or "u"
  cfgRetries,   \* webhook.Config.MaxRetries as handed to NewEmitter
  maxRetries,   \* e.config.MaxRetries as NewEmitter stored it
  receiver,     \* behaviour of the webhook receiver: "fail", "flaky", "ok"
  queue,        \* e.queue: the buffered channel's content (event ids)
  qClosed,      \* close(e.queue) happened
  eCancelled,   \* e.ctx is cancelled
  started,      \* Start launched the workers
  worker,       \* the worker goroutines: a bag of [pc, ev, attempt], one copy per goroutine
  emitted,      \* number of Emit calls made so far; the k-th call carries event k
  att,          \* per event: number of calls of e.send
  ok2xx,        \* per event: number of 2xx answers received
  outcome,      \* per event: none, queued, dropped, panic, taken, delivered, exhausted, cancelled
  stopPc,       \* Stop: "none", "waiting" (in wg.Wait), "done"
  ePanicked     \* a goroutine panicked (send on a closed channel)

evars == <<url, cfgRetries, maxRetries, receiver, queue, qClosed, eCancelled, started,
           worker, emitted, att, ok2xx, outcome, stopPc, ePanicked>>

\* the value NewEmitter substitutes for a MaxRetries that is not positive
DefaultRetries == 3

\* NewEmitter: "if cfg.MaxRetries <= 0 { cfg.MaxRetries = 3 }".
NewEmitterRetries(n) == IF n <= 0 THEN DefaultRetries ELSE n

\* the backoff cap of deliver, in seconds
MaxBackoff == 30

\* A time.Duration is an int64 of nanoseconds.  The model keeps its 64 bits
\* as four 16-bit limbs, least significant first, so that a product wraps as
\* it does in Go.
Limb == 65536

\* the Duration of n nanoseconds, 0 <= n < 65536
Small(n) == <<n, 0, 0, 0>>

\* int64(1) << p for a shift count p >= 0: zero from p = 64 on
ShiftOne(p) ==
  IF p >= 64 THEN Small(0)
  ELSE [i \in 1..4 |-> IF i - 1 = p \div 16 THEN 2 ^ (p % 16) ELSE 0]

\* x * c in int64, for a factor 0 <= c <= 1000: the carry out of the top
\* limb is lost
MulSmall(x, c) ==
  LET l1 == x[1] * c
      l2 == x[2] * c + l1 \div Limb
      l3 == x[3] * c + l2 \div Limb
      l4 == x[4] * c + l3 \div Limb
  IN <<l1 % Limb, l2 % Limb, l3 % Limb, l4 % Limb>>

\* x * time.Second, time.Second being 1000 * 1000 * 1000 nanoseconds
TimesSecond(x) == MulSmall(MulSmall(MulSmall(x, 1000), 1000), 1000)

\* the sign bit of an int64
Negative(x) == x[4] >= Limb \div 2

\* x > y for int64 x and y
Greater(x, y) ==
  IF Negative(x) # Negative(y) THEN Negative(y)
  ELSE \E i \in 1..4 : x[i] > y[i] /\ \A j \in (i + 1)..4 : x[j] = y[j]

\* deliver's sleep before attempt number attempt (attempt > 0):
\* time.Duration(1<<(attempt-1)) * time.Second, replaced by 30 s when larger.
Backoff(attempt) ==
  LET backoff == TimesSecond(ShiftOne(attempt - 1))
      cap == TimesSecond(Small(MaxBackoff))
  IN IF Greater(backoff, cap) THEN cap ELSE backoff

OffWorker == [pc |-> "off", ev |-> 0, attempt |-> 0]
IdleWorker == [pc |-> "idle", ev |-> 0, attempt |-> 0]
ExitedWorker == [pc |-> "exited", ev |-> 0, attempt |-> 0]

\* The pool after one goroutine in state w has moved to state v.
Become(w, v) == (worker (-) SetToBag({w})) (+) SetToBag({v})

\* The state NewEmitter returns for a configuration (u, n), facing receiver r.
NewEmitter(u, n, r) ==
  /\ url = u
  /\ cfgRetries = n
  /\ maxRetries = NewEmitterRetries(n)
  /\ receiver = r
  /\ queue = <<>>
  /\ qClosed = FALSE
  /\ eCancelled = FALSE
  /\ started = FALSE
  /\ worker = [x \in {OffWorker} |-> NumWorkers]
  /\ emitted = 0
  /\ att = [e \in Events |-> 0]
  /\ ok2xx = [e \in Events |-> 0]
  /\ outcome = [e \in Events |-> "none"]
  /\ stopPc = "none"
  /\ ePanicked = FALSE

Receivers == {"fail", "flaky", "ok"}

\* The settings and receivers the emitter is run with.  The receivers differ
\* only while e.ctx is live: once it is cancelled every request fails before
\* it reaches the receiver.  While it is live deliver returns at the first
\* request to "ok" and at the second to "flaky", and only "fail" takes it to
\* the last attempt: "fail" is run with every setting, the default (0)
\* included, "flaky" with every explicit setting and "ok" with one retry.
Configs ==
  {<<n, "fail">> : n \in 0..MaxCfgRetries}
    \cup {<<n, "flaky">> : n \in 1..MaxCfgRetries}
    \cup {<<1, "ok">>}

EInit ==
  \/ NewEmitter("", 0, "ok")
  \/ \E c \in Configs : NewEmitter("u", c[1], c[2])

\* Emitter.Start: one goroutine per worker.
EStart ==
  /\ ~started
  /\ ~ePanicked
  /\ stopPc = "none"
  /\ started' = TRUE
  /\ worker' = [x \in {IdleWorker} |-> NumWorkers]
  /\ UNCHANGED <<url, cfgRetries, maxRetries, receiver, queue, qClosed, eCancelled,
                 emitted, att, ok2xx, outcome, stopPc, ePanicked>>

\* Emit with a plain (blocking) channel send in place of select/default.
EmitBlocking ==
  /\ emitted < NumEvents
  /\ ~ePanicked
  /\ emitted' = emitted + 1
  /\ IF url = ""
       THEN /\ outcome' = [outcome EXCEPT ![emitted + 1] = "dropped"]
            /\ UNCHANGED <<queue, ePanicked>>
       ELSE IF qClosed
         THEN /\ ePanicked' = TRUE
              /\ outcome' = [outcome EXCEPT ![emitted + 1] = "panic"]
              /\ UNCHANGED queue
         ELSE /\ Len(queue) < QueueCap
              /\ queue' = Append(queue, emitted + 1)
              /\ outcome' = [outcome EXCEPT ![emitted + 1] = "queued"]
              /\ UNCHANGED ePanicked
  /\ UNCHANGED <<url, cfgRetries, maxRetries, receiver, qClosed, eCancelled, started,
                 worker, att, ok2xx, stopPc>>

\* Emit dropping the oldest queued event, instead of the new one, when the
\* queue is full.
EmitDropOldest ==
  /\ emitted < NumEvents
  /\ ~ePanicked
  /\ emitted' = emitted + 1
  /\ IF url = ""
       THEN /\ outcome' = [outcome EXCEPT ![emitted + 1] = "dropped"]
            /\ UNCHANGED <<queue, ePanicked>>
       ELSE IF qClosed
         THEN /\ ePanicked' = TRUE
              /\ outcome' = [outcome EXCEPT ![emitted + 1] = "panic"]
              /\ UNCHANGED queue
         ELSE IF Len(queue) < QueueCap
           THEN /\ queue' = Append(queue, emitted + 1)
                /\ outcome' = [outcome EXCEPT ![emitted + 1] = "queued"]
                /\ UNCHANGED ePanicked
           ELSE /\ queue' = Append(Tail(queue), emitted + 1)
                /\ outcome' = [outcome EXCEPT ![emitted + 1] = "queued", ![Head(queue)] = "dropped"]
                /\ UNCHANGED ePanicked
  /\ UNCHANGED <<url, cfgRetries, maxRetries, receiver, qClosed, eCancelled, started,
                 worker, att, ok2xx, stopPc>>

\* Emit(type, data) for the next event: return at once when no URL is set;
\* otherwise the select with a default case.  A send on a closed channel
\* panics.
Emit ==
  /\ emitted < NumEvents
  /\ ~ePanicked
  /\ emitted' = emitted + 1
  /\ IF url = ""
       THEN /\ outcome' = [outcome EXCEPT ![emitted + 1] = "dropped"]
            /\ UNCHANGED <<queue, ePanicked>>
       ELSE IF qClosed
         THEN /\ ePanicked' = TRUE
              /\ outcome' = [outcome EXCEPT ![emitted + 1] = "panic"]
              /\ UNCHANGED queue
         ELSE IF Len(queue) < QueueCap
           THEN /\ queue' = Append(queue, emitted + 1)
                /\ outcome' = [outcome EXCEPT ![emitted + 1] = "queued"]
                /\ UNCHANGED ePanicked
           ELSE /\ outcome' = [outcome EXCEPT ![emitted + 1] = "dropped"]
                /\ UNCHANGED <<queue, ePanicked>>
  /\ UNCHANGED <<url, cfgRetries, maxRetries, receiver, qClosed, eCancelled, started,
                 worker, att, ok2xx, stopPc>>

\* worker's select: ctx.Done, or a receive from the queue (an event, or the
\* closed and empty channel).  When several cases are ready Go picks any.
WorkerSelect(w) ==
  /\ w.pc = "idle"
  /\ ~ePanicked
  /\ \/ /\ eCancelled
        /\ worker' = Become(w, ExitedWorker)
        /\ UNCHANGED <<queue, outcome>>
     \/ /\ queue # <<>>
        /\ worker' = Become(w, [pc |-> "busy", ev |-> Head(queue), attempt |-> 0])
        /\ outcome' = [outcome EXCEPT ![Head(queue)] = "taken"]
        /\ queue' = Tail(queue)
     \/ /\ queue = <<>>
        /\ qClosed
        /\ worker' = Become(w, ExitedWorker)
        /\ UNCHANGED <<queue, outcome>>
  /\ UNCHANGED <<url, cfgRetries, maxRetries, receiver, qClosed, eCancelled, started,
                 emitted, att, ok2xx, stopPc, ePanicked>>

\* The answer of the receiver to attempt number attempt (from 0) of an event:
\* TRUE for a 2xx status.
ReceiverAnswer(attempt) ==
  CASE receiver = "fail" -> FALSE
    [] receiver = "flaky" -> attempt > 0
    [] OTHER -> TRUE

\* deliver's loop runs attempt = 0 .. qe.retries + e.config.MaxRetries, and
\* Emit queues every event with retries: 0.
LastAttempt == 0 + maxRetries

\* deliver's loop, had it gone on to the next attempt after a 2xx answer
\* instead of returning.
WorkerAttemptNoReturn(w) ==
  LET e == w.ev
      a == w.attempt
      ok == ~eCancelled /\ ReceiverAnswer(a)
  IN
  /\ w.pc = "busy"
  /\ ~ePanicked
  /\ att' = [att EXCEPT ![e] = @ + 1]
  /\ ok2xx' = IF ok THEN [ok2xx EXCEPT ![e] = @ + 1] ELSE ok2xx
  /\ IF a + 1 <= LastAttempt
       THEN /\ worker' = Become(w, [w EXCEPT !.attempt = a + 1])
            /\ outcome' = IF ok THEN [outcome EXCEPT ![e] = "delivered"] ELSE outcome
       ELSE /\ worker' = Become(w, IdleWorker)
            /\ outcome' = [outcome EXCEPT ![e] = IF ok THEN "delivered" ELSE "exhausted"]
  /\ UNCHANGED <<url, cfgRetries, maxRetries, receiver, queue, qClosed, eCancelled,
                 started, emitted, stopPc, ePanicked>>

\* One iteration of deliver's loop for the event worker w holds: before a
\* retry the select on ctx.Done and the backoff timer, then e.send and the
\* branch on its result.  The request carries e.ctx: once that is cancelled
\* the request fails without reaching the receiver.
WorkerAttempt(w) ==
  LET e == w.ev
      a == w.attempt
      ok == ~eCancelled /\ ReceiverAnswer(a)
  IN
  /\ w.pc = "busy"
  /\ ~ePanicked
  /\ \/ /\ a > 0
        /\ eCancelled
        /\ worker' = Become(w, IdleWorker)
        /\ outcome' = [outcome EXCEPT ![e] = "cancelled"]
        /\ UNCHANGED <<att, ok2xx>>
     \/ /\ att' = [att EXCEPT ![e] = @ + 1]
        /\ IF ok
             THEN /\ ok2xx' = [ok2xx EXCEPT ![e] = @ + 1]
                  /\ outcome' = [outcome EXCEPT ![e] = "delivered"]
                  /\ worker' = Become(w, IdleWorker)
             ELSE /\ UNCHANGED ok2xx
                  /\ IF a + 1 <= LastAttempt
                       THEN /\ worker' = Become(w, [w EXCEPT !.attempt = a + 1])
                            /\ UNCHANGED outcome
                       ELSE /\ worker' = Become(w, IdleWorker)
                            /\ outcome' = [outcome EXCEPT ![e] = "exhausted"]
  /\ UNCHANGED <<url, cfgRetries, maxRetries, receiver, queue, qClosed, eCancelled,
                 started, emitted, stopPc, ePanicked>>

\* Emitter.Stop up to wg.Wait: cancel the context, close the queue.
EStop ==
  /\ stopPc = "none"
  /\ ~ePanicked
  /\ eCancelled' = TRUE
  /\ qClosed' = TRUE
  /\ stopPc' = "waiting"
  /\ UNCHANGED <<url, cfgRetries, maxRetries, receiver, queue, started, worker,
                 emitted, att, ok2xx, outcome, ePanicked>>

AllWorkersExited == \A w \in BagToSet(worker) : w.pc \in {"off", "exited"}

\* Emitter.Stop: wg.Wait returns when every started worker has left.
EStopReturn ==
  /\ stopPc = "waiting"
  /\ ~ePanicked
  /\ AllWorkersExited
  /\ stopPc' = "done"
  /\ UNCHANGED <<url, cfgRetries, maxRetries, receiver, queue, qClosed, eCancelled,
                 started, worker, emitted, att, ok2xx, outcome, ePanicked>>

(***************************************************************************)
(* Service Manager: state.                                                 *)
(***************************************************************************)
VARIABLES
  state,          \* StateMachine.state
  qrCode,         \* StateMachine.qrCode: 0 for "", else the number of a QR string
  lastError,      \* StateMachine.lastError != nil
  app,            \* Manager.app: "nil" or "open"
  waOpen,         \* app.WA() != nil: OpenWA has built the protocol client
  lockHeld,       \* the data-directory lock is held by this process
  lockField,      \* Manager.lock != nil
  starts,         \* calls of Start made so far
  stopped,        \* Stop was called after the last Start
  ctxCancelled,   \* Manager.ctx is cancelled
  syncRunning,    \* Manager.syncRunning
  syncCancelled,  \* Manager.syncCtx is cancelled
  eventHandlerID, \* Manager.eventHandlerID: 0 or the id AddEventHandler returned
  ingestH,        \* ids of the ingest handlers registered with the client
  nextID,         \* ingest handlers registered so far (the client's id counter)
  pairH,          \* the InitiateAuth calls whose pairing handler is registered
  authed,         \* client.IsAuthed(): a device identity is stored in session.db
  connected,      \* client.IsConnected()
  cas,            \* the connectAndSync goroutine: none, begin, open, connect, sync, done
  auth,           \* per InitiateAuth call: [pc, connCh, failCh, sawConn, err]
  sw,             \* the runSyncWorker goroutine: none, register, waiting
  starters,       \* goroutines "go m.startSyncWorker()" of StartSync not yet run
  copies,         \* times the last live message event was stored and fanned out
  panicked        \* a goroutine dereferenced a nil app or client: the process is gone

smvars == <<state, qrCode, lastError>>

mvars == <<state, qrCode, lastError, app, waOpen, lockHeld, lockField, starts, stopped,
           ctxCancelled,
           syncRunning, syncCancelled, eventHandlerID, ingestH, nextID, pairH, authed,
           connected, cas, auth, sw, starters, copies, panicked>>

\* the callers of InitiateAuth: each POST /auth/init starts one in a goroutine
\* of its own
AuthCallers == {"a1", "a2"}

\* the caller the specification of the whole Manager follows
FirstCaller == {"a1"}

\* an InitiateAuth call not under way; err holds the "already authenticated"
\* error when the last call returned it
IdleAuth == [pc |-> "idle", connCh |-> FALSE, failCh |-> FALSE, sawConn |-> FALSE, err |-> ""]

\* the return of fmt.Errorf("already authenticated")
AlreadyAuthenticated == [IdleAuth EXCEPT !.err = "already authenticated"]

\* NewManager / NewStateMachine, with or without a session stored on disk.
MInit ==
  /\ state = "unauthenticated"
  /\ qrCode = 0
  /\ lastError = FALSE
  /\ app = "nil"
  /\ waOpen = FALSE
  /\ lockHeld = FALSE
  /\ lockField = FALSE
  /\ starts = 0
  /\ stopped = FALSE
  /\ ctxCancelled = FALSE
  /\ syncRunning = FALSE
  /\ syncCancelled = FALSE
  /\ eventHandlerID = 0
  /\ ingestH = {}
  /\ nextID = 0
  /\ pairH = {}
  /\ authed \in BOOLEAN
  /\ connected = FALSE
  /\ cas = "none"
  /\ auth = [c \in AuthCallers |-> IdleAuth]
  /\ sw = "none"
  /\ starters = 0
  /\ copies = 0
  /\ panicked = FALSE

\* StateMachine.SetState, had it left the QR code alone.
SetStateKeepsQR(s) ==
  /\ state' = s
  /\ qrCode' = qrCode
  /\ lastError' = IF s # "error" THEN FALSE ELSE lastError

\* StateMachine.SetState(s): the QR is cleared unless s is pairing, the error
\* unless s is error.
SetState(s) ==
  /\ state' = s
  /\ qrCode' = IF s # "pairing" THEN 0 ELSE qrCode
  /\ lastError' = IF s # "error" THEN FALSE ELSE lastError

\* StateMachine.SetError(err).
SetError ==
  /\ state' = "error"
  /\ lastError' = TRUE
  /\ qrCode' = 0

\* StateMachine.SetQRCode(code).
SetQRCode(q) ==
  /\ qrCode' = q
  /\ state' = "pairing"
  /\ UNCHANGED lastError

\* StateMachine.QRCode(): the QR string, in state pairing only.
QRCode == IF state = "pairing" THEN qrCode ELSE 0

\* StateMachine.StatusInfo(): the snapshot the status endpoint returns.
StatusInfo ==
  [state |-> state, ready |-> state = "connected", hasQR |-> qrCode # 0, error |-> lastError]

\* Manager.Start: lock.Acquire, app.New (a fresh client without handlers),
\* a new root context, "go m.connectAndSync()".
Start ==
  /\ starts < MaxStarts
  /\ app = "nil"
  /\ cas \in {"none", "done"}
  /\ starts' = starts + 1
  /\ stopped' = FALSE
  /\ \/ \* lock.Acquire fails
        /\ ~lockHeld
        /\ SetError
        /\ UNCHANGED <<app, waOpen, lockHeld, lockField, ctxCancelled, ingestH, pairH,
                       connected, cas>>
     \/ \* app.New fails: the lock is released, m.lock keeps the released lock
        /\ ~lockHeld
        /\ lockField' = TRUE
        /\ SetError
        /\ UNCHANGED <<app, waOpen, lockHeld, ctxCancelled, ingestH, pairH, connected, cas>>
     \/ /\ ~lockHeld
        /\ lockHeld' = TRUE
        /\ lockField' = TRUE
        /\ app' = "open"
        /\ waOpen' = FALSE
        /\ ingestH' = {}
        /\ pairH' = {}
        /\ connected' = FALSE
        /\ ctxCancelled' = FALSE
        /\ cas' = "begin"
        /\ UNCHANGED smvars
  /\ UNCHANGED <<syncRunning, syncCancelled, eventHandlerID, nextID, authed, auth, sw,
                 starters, copies, panicked>>

\* Manager.Stop: cancel the root context, remove the handler eventHandlerID
\* names, close the app, release the lock, SetState(Disconnected).
Stop ==
  /\ starts > 0
  /\ ~stopped
  /\ stopped' = TRUE
  /\ ctxCancelled' = TRUE
  /\ syncCancelled' = TRUE
  /\ IF app = "open"
       THEN /\ ingestH' = IF eventHandlerID # 0 /\ waOpen
                            THEN ingestH \ {eventHandlerID} ELSE ingestH
            /\ app' = "nil"
            /\ waOpen' = FALSE
            /\ connected' = FALSE
       ELSE UNCHANGED <<ingestH, app, waOpen, connected>>
  /\ lockHeld' = FALSE
  /\ lockField' = FALSE
  /\ SetState("disconnected")
  /\ UNCHANGED <<starts, syncRunning, eventHandlerID, nextID, pairH, authed, cas, auth,
                 sw, starters, copies, panicked>>

\* startSyncWorker: under the mutex, return when a worker is running;
\* otherwise mark it running, derive syncCtx from m.ctx and start
\* runSyncWorker.
StartSyncWorker ==
  IF syncRunning
    THEN UNCHANGED <<syncRunning, syncCancelled, sw>>
    ELSE /\ syncRunning' = TRUE
         /\ syncCancelled' = ctxCancelled
         /\ sw' = "register"

\* connectAndSync: SetState(Connecting).
CasBegin ==
  /\ cas = "begin"
  /\ SetState("connecting")
  /\ cas' = "open"
  /\ UNCHANGED <<app, waOpen, lockHeld, lockField, starts, stopped, ctxCancelled, syncRunning,
                 syncCancelled, eventHandlerID, ingestH, nextID, pairH, authed, connected,
                 auth, sw, starters, copies, panicked>>

\* connectAndSync, had it returned without SetState(Unauthenticated) when no
\* session is stored.
CasOpenStaysConnecting ==
  /\ cas = "open"
  /\ IF app = "nil"
       THEN /\ panicked' = TRUE
            /\ UNCHANGED <<smvars, waOpen, cas>>
       ELSE /\ UNCHANGED panicked
            /\ \/ \* OpenWA fails
                  /\ ~waOpen
                  /\ SetError
                  /\ cas' = "done"
                  /\ UNCHANGED waOpen
               \/ /\ waOpen' = TRUE
                  /\ IF authed
                       THEN /\ cas' = "connect"
                            /\ UNCHANGED smvars
                       ELSE /\ UNCHANGED smvars
                            /\ cas' = "done"
  /\ UNCHANGED <<app, lockHeld, lockField, starts, stopped, ctxCancelled, syncRunning,
                 syncCancelled, eventHandlerID, ingestH, nextID, pairH, authed, connected,
                 auth, sw, starters, copies>>

\* connectAndSync: m.app.OpenWA(), the branch on IsAuthed, and the call of
\* m.app.Connect(m.ctx, false, nil).
CasOpen ==
  /\ cas = "open"
  /\ IF app = "nil"
       THEN /\ panicked' = TRUE
            /\ UNCHANGED <<smvars, waOpen, cas>>
       ELSE /\ UNCHANGED panicked
            /\ \/ \* OpenWA fails
                  /\ ~waOpen
                  /\ SetError
                  /\ cas' = "done"
                  /\ UNCHANGED waOpen
               \/ /\ waOpen' = TRUE
                  /\ IF authed
                       THEN /\ cas' = "connect"
                            /\ UNCHANGED smvars
                       ELSE /\ SetState("unauthenticated")
                            /\ cas' = "done"
  /\ UNCHANGED <<app, lockHeld, lockField, starts, stopped, ctxCancelled, syncRunning,
                 syncCancelled, eventHandlerID, ingestH, nextID, pairH, authed, connected,
                 auth, sw, starters, copies>>

\* connectAndSync: m.app.Connect returns; SetError on failure, on success
\* SetState(Connected).  The call succeeds only on a live client.
CasConnect ==
  /\ cas = "connect"
  /\ \/ /\ SetError
        /\ cas' = "done"
        /\ UNCHANGED connected
     \/ /\ app = "open"
        /\ ~ctxCancelled
        /\ authed
        /\ connected' = TRUE
        /\ SetState("connected")
        /\ cas' = "sync"
  /\ UNCHANGED <<app, waOpen, lockHeld, lockField, starts, stopped, ctxCancelled, syncRunning,
                 syncCancelled, eventHandlerID, ingestH, nextID, pairH, authed, auth, sw,
                 starters, copies, panicked>>

\* connectAndSync: m.startSyncWorker().
CasSync ==
  /\ cas = "sync"
  /\ StartSyncWorker
  /\ cas' = "done"
  /\ UNCHANGED <<smvars, app, waOpen, lockHeld, lockField, starts, stopped, ctxCancelled,
                 eventHandlerID, ingestH, nextID, pairH, authed, connected, auth,
                 starters, copies, panicked>>

\* runSyncWorker: m.app.WA().AddEventHandler(...) stored in eventHandlerID.
RunSyncRegister ==
  /\ sw = "register"
  /\ nextID < MaxHandlers
  /\ IF app = "nil" \/ ~waOpen
       THEN /\ panicked' = TRUE
            /\ UNCHANGED <<ingestH, nextID, eventHandlerID, sw>>
       ELSE /\ nextID' = nextID + 1
            /\ ingestH' = ingestH \cup {nextID + 1}
            /\ eventHandlerID' = nextID + 1
            /\ sw' = "waiting"
            /\ UNCHANGED panicked
  /\ UNCHANGED <<smvars, app, waOpen, lockHeld, lockField, starts, stopped, ctxCancelled,
                 syncRunning, syncCancelled, pairH, authed, connected, cas, auth,
                 starters, copies>>

\* runSyncWorker: <-m.syncCtx.Done(), then the deferred syncRunning = false.
\* The handler stays registered.
RunSyncExit ==
  /\ sw = "waiting"
  /\ syncCancelled
  /\ sw' = "none"
  /\ syncRunning' = FALSE
  /\ UNCHANGED <<smvars, app, waOpen, lockHeld, lockField, starts, stopped, ctxCancelled,
                 syncCancelled, eventHandlerID, ingestH, nextID, pairH, authed, connected,
                 cas, auth, starters, copies, panicked>>

\* the API is served between a successful Start and Stop
Serving == app = "open"

\* Manager.GetDiagnostics(): lockHeld is m.lock != nil; the two client flags
\* are read when the app and its client are there.
GetDiagnostics ==
  [lockHeld |-> lockField,
   authenticated |-> app = "open" /\ waOpen /\ authed,
   connected |-> app = "open" /\ waOpen /\ connected]

\* Manager.StartSync: refuse when a worker is running, else
\* "go m.startSyncWorker()".
StartSync ==
  /\ Serving
  /\ starters = 0
  /\ ~syncRunning
  /\ starters' = 1
  /\ UNCHANGED <<smvars, app, waOpen, lockHeld, lockField, starts, stopped, ctxCancelled,
                 syncRunning, syncCancelled, eventHandlerID, ingestH, nextID, pairH,
                 authed, connected, cas, auth, sw, copies, panicked>>

\* the goroutine StartSync started runs startSyncWorker
StartSyncRun ==
  /\ starters > 0
  /\ starters' = starters - 1
  /\ StartSyncWorker
  /\ UNCHANGED <<smvars, app, waOpen, lockHeld, lockField, starts, stopped, ctxCancelled,
                 eventHandlerID, ingestH, nextID, pairH, authed, connected, cas, auth,
                 copies, panicked>>

\* Manager.StopSync: refuse when no worker is running, else cancel syncCtx.
StopSync ==
  /\ Serving
  /\ syncRunning
  /\ ~syncCancelled
  /\ syncCancelled' = TRUE
  /\ UNCHANGED <<smvars, app, waOpen, lockHeld, lockField, starts, stopped, ctxCancelled,
                 syncRunning, eventHandlerID, ingestH, nextID, pairH, authed, connected,
                 cas, auth, sw, starters, copies, panicked>>

\* the pairing handlers registered with the client, without that of call c
Unsubscribed(c) == pairH \ {c}

\* InitiateAuth: the check of m.app under the mutex.
AuthCall(c) ==
  /\ auth[c].pc = "idle"
  /\ Serving
  /\ auth' = [auth EXCEPT ![c] = [IdleAuth EXCEPT !.pc = "open"]]
  /\ UNCHANGED <<smvars, app, waOpen, lockHeld, lockField, starts, stopped, ctxCancelled,
                 syncRunning, syncCancelled, eventHandlerID, ingestH, nextID, pairH,
                 authed, connected, cas, sw, starters, copies, panicked>>

\* InitiateAuth, had it gone on to pair without the IsAuthed refusal.
AuthOpenNoRefusal(c) ==
  /\ auth[c].pc = "open"
  /\ IF app = "nil"
       THEN /\ panicked' = TRUE
            /\ UNCHANGED <<smvars, waOpen, auth>>
       ELSE /\ UNCHANGED panicked
            /\ \/ \* OpenWA fails
                  /\ ~waOpen
                  /\ SetError
                  /\ auth' = [auth EXCEPT ![c] = IdleAuth]
                  /\ UNCHANGED waOpen
               \/ /\ waOpen' = TRUE
                  /\ SetState("connecting")
                  /\ auth' = [auth EXCEPT ![c].pc = "subscribe"]
  /\ UNCHANGED <<app, lockHeld, lockField, starts, stopped, ctxCancelled, syncRunning,
                 syncCancelled, eventHandlerID, ingestH, nextID, pairH, authed, connected,
                 cas, sw, starters, copies>>

\* InitiateAuth: m.app.OpenWA(), the IsAuthed refusal, SetState(Connecting).
AuthOpen(c) ==
  /\ auth[c].pc = "open"
  /\ IF app = "nil"
       THEN /\ panicked' = TRUE
            /\ UNCHANGED <<smvars, waOpen, auth>>
       ELSE /\ UNCHANGED panicked
            /\ \/ \* OpenWA fails
                  /\ ~waOpen
                  /\ SetError
                  /\ auth' = [auth EXCEPT ![c] = IdleAuth]
                  /\ UNCHANGED waOpen
               \/ /\ waOpen' = TRUE
                  /\ IF authed
                       THEN /\ auth' = [auth EXCEPT ![c] = AlreadyAuthenticated]
                            /\ UNCHANGED smvars
                       ELSE /\ SetState("connecting")
                            /\ auth' = [auth EXCEPT ![c].pc = "subscribe"]
  /\ UNCHANGED <<app, lockHeld, lockField, starts, stopped, ctxCancelled, syncRunning,
                 syncCancelled, eventHandlerID, ingestH, nextID, pairH, authed, connected,
                 cas, sw, starters, copies>>

\* InitiateAuth: AddEventHandler of the pairing handler, with its two
\* one-slot channels, then the call of m.app.Connect(ctx, true, onQR).
\* Here and below m.app.WA() is nil, and the call on it panics, when the app
\* is gone or is a new one whose client was not opened.
AuthSubscribe(c) ==
  /\ auth[c].pc = "subscribe"
  /\ IF app = "nil" \/ ~waOpen
       THEN /\ panicked' = TRUE
            /\ UNCHANGED <<pairH, auth>>
       ELSE /\ pairH' = pairH \cup {c}
            /\ auth' = [auth EXCEPT ![c].pc = "connect"]
            /\ UNCHANGED panicked
  /\ UNCHANGED <<smvars, app, waOpen, lockHeld, lockField, starts, stopped, ctxCancelled,
                 syncRunning, syncCancelled, eventHandlerID, ingestH, nextID, authed,
                 connected, cas, sw, starters, copies>>

\* The QR callback of Connect: m.state.SetQRCode(qr) with a fresh string.
AuthQR(c) ==
  /\ auth[c].pc = "connect"
  /\ app = "open"
  /\ ~authed
  /\ \E q \in (1..MaxQR) \ {qrCode} : SetQRCode(q)
  /\ UNCHANGED <<app, waOpen, lockHeld, lockField, starts, stopped, ctxCancelled,
                 syncRunning, syncCancelled, eventHandlerID, ingestH, nextID, pairH,
                 authed, connected, cas, auth, sw, starters, copies, panicked>>

\* InitiateAuth: m.app.Connect returns.  On an error the handler is removed
\* and SetError called; otherwise the call goes on to wait for Connected.
AuthConnectReturn(c) ==
  /\ auth[c].pc = "connect"
  /\ \/ IF app = "nil" \/ ~waOpen
          THEN /\ panicked' = TRUE
               /\ UNCHANGED <<smvars, pairH, auth>>
          ELSE /\ pairH' = Unsubscribed(c)
               /\ SetError
               /\ auth' = [auth EXCEPT ![c] = IdleAuth]
               /\ UNCHANGED panicked
     \/ /\ app = "open"
        /\ waOpen
        /\ auth' = [auth EXCEPT ![c].pc = "wait"]
        /\ UNCHANGED <<smvars, pairH, panicked>>
  /\ UNCHANGED <<app, waOpen, lockHeld, lockField, starts, stopped, ctxCancelled,
                 syncRunning, syncCancelled, eventHandlerID, ingestH, nextID, authed,
                 connected, cas, sw, starters, copies>>

\* The ctx.Done case of InitiateAuth's select, had it returned without
\* RemoveEventHandler.
AuthCancelKeepsHandler(c) ==
  /\ auth' = [auth EXCEPT ![c] = IdleAuth]
  /\ UNCHANGED <<smvars, pairH, panicked>>

\* The ctx.Done case of InitiateAuth's select: the handler is removed and
\* ctx.Err() returned; the state machine is not touched.
AuthCancel(c) ==
  /\ pairH' = Unsubscribed(c)
  /\ auth' = [auth EXCEPT ![c] = IdleAuth]
  /\ UNCHANGED <<smvars, panicked>>

\* The time.After case of InitiateAuth's select: fail unless the client is
\* authenticated; if it is, go on as if Connected had been seen.
AuthTimeout(c) ==
  IF ~authed
    THEN /\ pairH' = Unsubscribed(c)
         /\ SetError
         /\ auth' = [auth EXCEPT ![c] = IdleAuth]
         /\ UNCHANGED panicked
    ELSE /\ auth' = [auth EXCEPT ![c].pc = "finish", ![c].sawConn = FALSE]
         /\ UNCHANGED <<smvars, pairH, panicked>>

\* InitiateAuth: the select on connected, authFailed, the 30 s timer and
\* ctx.Done.
AuthWait(c) ==
  /\ auth[c].pc = "wait"
  /\ \/ /\ auth[c].connCh
        /\ auth' = [auth EXCEPT ![c].pc = "finish", ![c].connCh = FALSE, ![c].sawConn = TRUE]
        /\ UNCHANGED <<smvars, pairH, panicked>>
     \/ /\ auth[c].failCh
        /\ IF app = "nil" \/ ~waOpen
             THEN /\ panicked' = TRUE
                  /\ UNCHANGED <<smvars, pairH, auth>>
             ELSE /\ pairH' = Unsubscribed(c)
                  /\ SetError
                  /\ auth' = [auth EXCEPT ![c] = IdleAuth]
                  /\ UNCHANGED panicked
     \/ IF app = "nil" \/ ~waOpen
          THEN /\ panicked' = TRUE
               /\ UNCHANGED <<smvars, pairH, auth>>
          ELSE AuthTimeout(c)
     \/ IF app = "nil" \/ ~waOpen
          THEN /\ panicked' = TRUE
               /\ UNCHANGED <<smvars, pairH, auth>>
          ELSE AuthCancel(c)
  /\ UNCHANGED <<app, waOpen, lockHeld, lockField, starts, stopped, ctxCancelled,
                 syncRunning, syncCancelled, eventHandlerID, ingestH, nextID, authed,
                 connected, cas, sw, starters, copies>>

\* InitiateAuth after the select: RemoveEventHandler, the final IsAuthed
\* check, ClearQRCode and SetState(Connected).
AuthFinish(c) ==
  /\ auth[c].pc = "finish"
  /\ IF app = "nil" \/ ~waOpen
       THEN /\ panicked' = TRUE
            /\ UNCHANGED <<smvars, pairH, auth>>
       ELSE /\ pairH' = Unsubscribed(c)
            /\ UNCHANGED panicked
            /\ IF ~authed
                 THEN /\ SetError
                      /\ auth' = [auth EXCEPT ![c] = IdleAuth]
                 ELSE /\ SetState("connected")
                      /\ auth' = [auth EXCEPT ![c].pc = "sync"]
  /\ UNCHANGED <<app, waOpen, lockHeld, lockField, starts, stopped, ctxCancelled,
                 syncRunning, syncCancelled, eventHandlerID, ingestH, nextID, authed,
                 connected, cas, sw, starters, copies>>

\* InitiateAuth: m.startSyncWorker() and the successful return.
AuthStartSync(c) ==
  /\ auth[c].pc = "sync"
  /\ StartSyncWorker
  /\ auth' = [auth EXCEPT ![c] = IdleAuth]
  /\ UNCHANGED <<smvars, app, waOpen, lockHeld, lockField, starts, stopped, ctxCancelled,
                 eventHandlerID, ingestH, nextID, pairH, authed, connected, cas,
                 starters, copies, panicked>>

\* Manager.Logout, had it returned without SetState(Unauthenticated).
LogoutKeepsState ==
  /\ Serving
  /\ waOpen
  /\ authed
  /\ authed' = FALSE
  /\ connected' \in {FALSE, connected}
  /\ UNCHANGED <<smvars, app, waOpen, lockHeld, lockField, starts, stopped, ctxCancelled,
                 syncRunning, syncCancelled, eventHandlerID, ingestH, nextID, pairH,
                 cas, auth, sw, starters, copies, panicked>>

\* Manager.Logout: the client's Logout drops the session and the connection,
\* then SetState(Unauthenticated).  The client closes the connection itself,
\* or the server has closed it, and then the client still has
\* events.Disconnected to dispatch: connected stays until that event.
Logout ==
  /\ Serving
  /\ waOpen
  /\ authed
  /\ authed' = FALSE
  /\ connected' \in {FALSE, connected}
  /\ SetState("unauthenticated")
  /\ UNCHANGED <<app, waOpen, lockHeld, lockField, starts, stopped, ctxCancelled,
                 syncRunning, syncCancelled, eventHandlerID, ingestH, nextID, pairH,
                 cas, auth, sw, starters, copies, panicked>>

\* a pairing is under way: some InitiateAuth is inside Connect or its select
Pairing == \E c \in AuthCallers : auth[c].pc \in {"connect", "wait"}

\* The client dispatches events.PairSuccess: the device identity is stored;
\* the pairing handler only logs.
EvPairSuccess ==
  /\ app = "open"
  /\ waOpen
  /\ Pairing
  /\ ~authed
  /\ authed' = TRUE
  /\ UNCHANGED <<smvars, app, waOpen, lockHeld, lockField, starts, stopped, ctxCancelled,
                 syncRunning, syncCancelled, eventHandlerID, ingestH, nextID, pairH,
                 connected, cas, auth, sw, starters, copies, panicked>>

\* The client dispatches events.PairError: each pairing handler offers the
\* error to its authFailed channel.
EvPairError ==
  /\ app = "open"
  /\ waOpen
  /\ Pairing
  /\ ~connected
  /\ auth' = [c \in AuthCallers |->
                IF c \in pairH THEN [auth[c] EXCEPT !.failCh = TRUE] ELSE auth[c]]
  /\ UNCHANGED <<smvars, app, waOpen, lockHeld, lockField, starts, stopped, ctxCancelled,
                 syncRunning, syncCancelled, eventHandlerID, ingestH, nextID, pairH,
                 authed, connected, cas, sw, starters, copies, panicked>>

\* The client dispatches events.Connected: the ingest handler calls
\* SetState(Connected), each pairing handler offers to its connected channel.
EvConnected ==
  /\ app = "open"
  /\ waOpen
  /\ authed
  /\ ~connected
  /\ connected' = TRUE
  /\ auth' = [c \in AuthCallers |->
                IF c \in pairH THEN [auth[c] EXCEPT !.connCh = TRUE] ELSE auth[c]]
  /\ IF ingestH # {} THEN SetState("connected") ELSE UNCHANGED smvars
  /\ UNCHANGED <<app, waOpen, lockHeld, lockField, starts, stopped, ctxCancelled,
                 syncRunning, syncCancelled, eventHandlerID, ingestH, nextID, pairH,
                 authed, cas, sw, starters, copies, panicked>>

\* The client dispatches events.Disconnected: the ingest handler calls
\* SetState(Disconnected); the pairing handler only logs.
EvDisconnected ==
  /\ app = "open"
  /\ connected
  /\ connected' = FALSE
  /\ IF ingestH # {} THEN SetState("disconnected") ELSE UNCHANGED smvars
  /\ UNCHANGED <<app, waOpen, lockHeld, lockField, starts, stopped, ctxCancelled,
                 syncRunning, syncCancelled, eventHandlerID, ingestH, nextID, pairH,
                 authed, cas, auth, sw, starters, copies, panicked>>

\* The client dispatches one events.Message: every registered ingest handler
\* runs handleIncomingMessage, which stores the message and fans it out.
EvMessage ==
  /\ app = "open"
  /\ connected
  /\ copies' = Cardinality(ingestH)
  /\ copies' # copies
  /\ UNCHANGED <<smvars, app, waOpen, lockHeld, lockField, starts, stopped, ctxCancelled,
                 syncRunning, syncCancelled, eventHandlerID, ingestH, nextID, pairH,
                 authed, connected, cas, auth, sw, starters, panicked>>

(***************************************************************************)
(* Ingest path of the sync worker: state.                                  *)
(***************************************************************************)
VARIABLES
  store,       \* the messages table of one chat: message id -> row, or NoRow
  handlers,    \* Manager.messageHandlers: the registered on_message callbacks
  called,      \* the callback invocations started so far: [h, id, committed]
  ing,         \* the running handleIncomingMessage: [pc, id, committed]
  last         \* the last message whose upsert committed: [id, media, via]

ivars == <<store, handlers, called, ing, last>>

\* the media metadata columns of a message row
MediaFields == {"kind", "caption", "filename", "mime", "directPath", "mediaKey",
                "sha256", "encSha256", "length"}

\* no media: every field empty
NoMedia == [f \in MediaFields |-> 0]

\* a media message that carries only its kind, its CDN path and its key
Partial == [NoMedia EXCEPT !.kind = 1, !.directPath = 1, !.mediaKey = 1]

\* the media metadata an envelope may carry: 0 is empty, 1 and 2 are values
MediaChoices == {NoMedia, [f \in MediaFields |-> 1], [f \in MediaFields |-> 2], Partial}

\* message ids; "" is a protocol control frame
MsgIds == {"m1", "m2"}

\* the message envelopes the protocol client delivers, sent by others
Envelopes == [id : MsgIds \cup {""}, text : {0, 1}, fromMe : {FALSE}, media : MediaChoices]

\* the callbacks OnMessage may register
Callbacks == {"h1", "h2"}

\* the absent row; localPath 0 is "not downloaded"
NoRow ==
  [text |-> 0, fromMe |-> FALSE, media |-> NoMedia, localPath |-> 0,
   downloadedAt |-> FALSE, present |-> FALSE]

IdleIngest == [pc |-> "idle", id |-> "", committed |-> FALSE]

NoLast == [id |-> "", media |-> NoMedia, via |-> "none"]

IInit ==
  /\ store = [k \in MsgIds |-> NoRow]
  /\ handlers = {}
  /\ called = {}
  /\ ing = IdleIngest
  /\ last = NoLast

\* wa.ParseLiveMessage: the canonical message of a live envelope, with every
\* media field the envelope carries.
ParseLiveMessage(env) ==
  [id |-> env.id, text |-> env.text, fromMe |-> env.fromMe, media |-> env.media]

\* wa.ParseHistoryMessage: the same projection for a history-sync envelope.
ParseHistoryMessage(env) ==
  [id |-> env.id, text |-> env.text, fromMe |-> env.fromMe, media |-> env.media]

\* The store.UpsertMessageParams handleIncomingMessage builds: of the media
\* metadata only MediaType is filled in.
LiveParams(pm) ==
  [id |-> pm.id, text |-> pm.text, fromMe |-> pm.fromMe,
   media |-> [NoMedia EXCEPT !.kind = pm.media.kind]]

\* The store.UpsertMessageParams handleHistorySync builds: no media field is
\* filled in.
HistoryParams(pm) ==
  [id |-> pm.id, text |-> pm.text, fromMe |-> pm.fromMe, media |-> NoMedia]

\* store.UpsertMessage, had it written every column of the incoming row.
UpsertMessageOverwrites(st, p) ==
  [st EXCEPT ![p.id] =
     [text |-> p.text,
      fromMe |-> p.fromMe,
      media |-> p.media,
      localPath |-> st[p.id].localPath,
      downloadedAt |-> st[p.id].downloadedAt,
      present |-> TRUE]]

\* store.UpsertMessage: insert, or on conflict replace the text and from_me
\* and keep each media field whose incoming value is empty.  The download
\* columns are not part of the write.
UpsertMessage(st, p) ==
  [st EXCEPT ![p.id] =
     [text |-> p.text,
      fromMe |-> p.fromMe,
      media |-> [f \in MediaFields |-> IF p.media[f] # 0 THEN p.media[f] ELSE st[p.id].media[f]],
      localPath |-> st[p.id].localPath,
      downloadedAt |-> st[p.id].downloadedAt,
      present |-> TRUE]]

\* Manager.OnMessage(handler).
OnMessage(h) ==
  /\ h \notin handlers
  /\ handlers' = handlers \cup {h}
  /\ UNCHANGED <<store, called, ing, last>>

\* handleIncomingMessage up to the upsert: parse, drop a frame without id,
\* return when the app is gone, UpsertChat, UpsertMessage.  The error of the
\* write is discarded.
LiveUpsert(env) ==
  LET pm == ParseLiveMessage(env) IN
  /\ ing.pc = "idle"
  /\ pm.id # ""
  /\ app = "open"
  /\ \E ok \in BOOLEAN :
       /\ store' = IF ok THEN UpsertMessage(store, LiveParams(pm)) ELSE store
       /\ last' = IF ok THEN [id |-> pm.id, media |-> pm.media, via |-> "live"] ELSE last
       /\ ing' = [pc |-> "notify", id |-> pm.id, committed |-> ok]
  /\ UNCHANGED <<handlers, called>>

\* notifyMessageHandlers, had it called h(msg) in place: it returns when
\* every callback has returned, and the callback h2 never does.
LiveNotifyInline ==
  /\ ing.pc = "notify"
  /\ "h2" \notin handlers
  /\ called' = called \cup {[h |-> h, id |-> ing.id, committed |-> ing.committed] : h \in handlers}
  /\ ing' = IdleIngest
  /\ UNCHANGED <<store, handlers, last>>

\* handleIncomingMessage: notifyMessageHandlers starts "go h(msg)" for every
\* registered callback.
LiveNotify ==
  /\ ing.pc = "notify"
  /\ called' = called \cup {[h |-> h, id |-> ing.id, committed |-> ing.committed] : h \in handlers}
  /\ ing' = IdleIngest
  /\ UNCHANGED <<store, handlers, last>>

\* One message of handleHistorySync's loop: parse, skip a message without
\* id, UpsertChat, UpsertMessage.  No fan-out.
HistoryUpsert(env) ==
  LET pm == ParseHistoryMessage(env) IN
  /\ ing.pc = "idle"
  /\ pm.id # ""
  /\ app = "open"
  /\ \E ok \in BOOLEAN :
       /\ store' = IF ok THEN UpsertMessage(store, HistoryParams(pm)) ELSE store
       /\ last' = IF ok THEN [id |-> pm.id, media |-> pm.media, via |-> "history"] ELSE last
  /\ UNCHANGED <<handlers, called, ing>>

(***************************************************************************)
(* Send and download operations of the Manager: state.                     *)
(***************************************************************************)
VARIABLES
  op,     \* the operation in progress, with what it has done so far
  ret,    \* the last operation that returned, with its result
  sent    \* the ids of the messages the protocol client has sent

ovars == <<op, ret, sent>>

\* no operation in progress.  ready and pathAtCall record the state and the
\* row's local_path at the call; calledClient and wroteStore what the
\* operation did.
IdleOp ==
  [kind |-> "none", pc |-> "idle", id |-> "", text |-> 0, target |-> 0,
   ready |-> FALSE, pathAtCall |-> 0, calledClient |-> FALSE, wroteStore |-> FALSE]

\* what the caller and an observer see of operation o when it returns
Return(o, result, path) ==
  [kind |-> o.kind, result |-> result, id |-> o.id, text |-> o.text, path |-> path,
   ready |-> o.ready, pathAtCall |-> o.pathAtCall, calledClient |-> o.calledClient,
   wroteStore |-> o.wroteStore]

NoRet == Return(IdleOp, "none", 0)

OInit ==
  /\ op = IdleOp
  /\ ret = NoRet
  /\ sent = {}

\* State.IsReady of the current state
Ready == state = "connected"

\* a != nil && a.WA() != nil
ClientAvailable == app = "open" /\ waOpen

\* The checks every send and download makes first: the state, then the app
\* and its client.  "pass" when the operation may go on.
Admit ==
  IF ~Ready THEN "notready"
  ELSE IF ~ClientAvailable THEN "unavailable"
  ELSE "pass"

\* SendText, had it not looked at the state.
SendTextCallUnchecked(valid, text) ==
  LET o == [IdleOp EXCEPT !.kind = "text", !.text = text, !.ready = Ready] IN
  /\ op.pc = "idle"
  /\ IF ~ClientAvailable
       THEN ret' = Return(o, "unavailable", 0) /\ UNCHANGED op
       ELSE IF ~valid
         THEN ret' = Return(o, "invalid", 0) /\ UNCHANGED op
         ELSE op' = [o EXCEPT !.pc = "send"] /\ UNCHANGED ret
  /\ UNCHANGED <<sent, store>>

\* SendText up to the client call: the ready check, the app check,
\* ParseUserOrJID of the recipient.
SendTextCall(valid, text) ==
  LET o == [IdleOp EXCEPT !.kind = "text", !.text = text, !.ready = Ready] IN
  /\ op.pc = "idle"
  /\ IF Admit # "pass"
       THEN ret' = Return(o, Admit, 0) /\ UNCHANGED op
       ELSE IF ~valid
         THEN ret' = Return(o, "invalid", 0) /\ UNCHANGED op
         ELSE op' = [o EXCEPT !.pc = "send"] /\ UNCHANGED ret
  /\ UNCHANGED <<sent, store>>

\* SendFile up to the upload: the ready check, the app check, ParseUserOrJID;
\* caption is the caption given, 0 for none.
SendFileCall(valid, caption) ==
  LET o == [IdleOp EXCEPT !.kind = "file", !.text = caption, !.ready = Ready] IN
  /\ op.pc = "idle"
  /\ IF Admit # "pass"
       THEN ret' = Return(o, Admit, 0) /\ UNCHANGED op
       ELSE IF ~valid
         THEN ret' = Return(o, "invalid", 0) /\ UNCHANGED op
         ELSE op' = [o EXCEPT !.pc = "upload"] /\ UNCHANGED ret
  /\ UNCHANGED <<sent, store>>

\* SendFile: a.WA().Upload.  It succeeds only on a connected client.
SendFileUpload ==
  /\ op.pc = "upload"
  /\ \/ /\ ret' = Return([op EXCEPT !.calledClient = TRUE], "error", 0)
        /\ op' = IdleOp
     \/ /\ app = "open"
        /\ connected
        /\ op' = [op EXCEPT !.pc = "send", !.calledClient = TRUE]
        /\ UNCHANGED ret
  /\ UNCHANGED <<sent, store>>

\* SendText and SendFile: the client's send (SendText, SendProtoMessage),
\* which returns the id of the new message.
ClientSend ==
  /\ op.pc = "send"
  /\ \/ /\ ret' = Return([op EXCEPT !.calledClient = TRUE], "error", 0)
        /\ op' = IdleOp
        /\ UNCHANGED sent
     \/ /\ app = "open"
        /\ connected
        /\ \E id \in MsgIds \ sent :
             /\ sent' = sent \cup {id}
             /\ op' = [op EXCEPT !.pc = "store", !.id = id, !.calledClient = TRUE]
        /\ UNCHANGED ret
  /\ UNCHANGED store

\* the store.UpsertMessageParams SendText builds
TextParams(o) == [id |-> o.id, text |-> o.text, fromMe |-> TRUE, media |-> NoMedia]

\* the store.UpsertMessageParams SendFile builds: the caption as text and
\* caption, every other media field from the arguments and the upload
FileParams(o) ==
  [id |-> o.id, text |-> o.text, fromMe |-> TRUE,
   media |-> [f \in MediaFields |-> IF f = "caption" THEN o.text ELSE 1]]

\* SendText and SendFile: UpsertChat and UpsertMessage, their errors
\* discarded, and the successful return.  The write fails on a closed Store.
StoreSent ==
  /\ op.pc = "store"
  /\ \E ok \in BOOLEAN :
       /\ ok => app = "open"
       /\ store' = IF ok
                     THEN UpsertMessage(store, IF op.kind = "text" THEN TextParams(op)
                                                                   ELSE FileParams(op))
                     ELSE store
       /\ ret' = Return([op EXCEPT !.wroteStore = ok], "ok", 0)
  /\ op' = IdleOp
  /\ UNCHANGED sent

\* app.ResolveMediaOutputPath: the file of a message inside the media directory
ResolveMediaOutputPath(id) == IF id = "m1" THEN 1 ELSE 2

\* store.MarkMediaDownloaded: local_path and downloaded_at of the row
MarkMediaDownloaded(st, id, path) ==
  IF st[id].present
    THEN [st EXCEPT ![id].localPath = path, ![id].downloadedAt = TRUE]
    ELSE st

\* info has what a download needs: MediaType, DirectPath and MediaKey
Downloadable(row) ==
  row.media.kind # 0 /\ row.media.directPath # 0 /\ row.media.mediaKey # 0

\* DownloadMedia up to the client call: the ready check, the app check,
\* GetMediaDownloadInfo, the metadata check, the early return of a path that
\* is already set, ResolveMediaOutputPath.
DownloadCall(id) ==
  LET o == [IdleOp EXCEPT !.kind = "download", !.id = id, !.ready = Ready,
                          !.pathAtCall = store[id].localPath]
      row == store[id]
  IN
  /\ op.pc = "idle"
  /\ IF Admit # "pass"
       THEN ret' = Return(o, Admit, 0) /\ UNCHANGED op
       ELSE IF ~row.present
         THEN ret' = Return(o, "notfound", 0) /\ UNCHANGED op
         ELSE IF ~Downloadable(row)
           THEN ret' = Return(o, "nometadata", 0) /\ UNCHANGED op
           ELSE IF row.localPath # 0
             THEN ret' = Return(o, "ok", row.localPath) /\ UNCHANGED op
             ELSE /\ op' = [o EXCEPT !.pc = "download", !.target = ResolveMediaOutputPath(id)]
                  /\ UNCHANGED ret
  /\ UNCHANGED <<sent, store>>

\* DownloadMedia: a.WA().DownloadMediaToFile.
DownloadFetch ==
  /\ op.pc = "download"
  /\ \/ /\ ret' = Return([op EXCEPT !.calledClient = TRUE], "error", 0)
        /\ op' = IdleOp
     \/ /\ app = "open"
        /\ connected
        /\ op' = [op EXCEPT !.pc = "mark", !.calledClient = TRUE]
        /\ UNCHANGED ret
  /\ UNCHANGED <<sent, store>>

\* DownloadMedia: MarkMediaDownloaded, its error discarded, and the
\* successful return with the target path.
DownloadMark ==
  /\ op.pc = "mark"
  /\ \E ok \in BOOLEAN :
       /\ ok => app = "open"
       /\ store' = IF ok THEN MarkMediaDownloaded(store, op.id, op.target) ELSE store
       /\ ret' = Return([op EXCEPT !.wroteStore = ok], "ok", op.target)
  /\ op' = IdleOp
  /\ UNCHANGED sent

(***************************************************************************)
(* Delivery of one webhook event (deliver, send, computeHMAC): state.      *)
(***************************************************************************)
VARIABLES
  dl      \* one call of deliver: its event, configuration, loop counter, last sleep and last request

dvars == <<dl>>

\* the values of webhook.Config.Secret: empty (no signing) or a key
Secrets == {"", "k1", "k2"}

\* the events delivered
DEvents == {1, 2}

\* json.Marshal(qe.event): the bytes of the event
Marshal(e) == <<"json", e>>

\* computeHMAC(payload, secret): "sha256=" and the hex form of the
\* HMAC-SHA256 of payload under secret
computeHMAC(payload, secret) ==
  [prefix |-> "sha256=", hex |-> [mac |-> "hmac-sha256", key |-> secret, msg |-> payload]]

\* send, had it never set the signature header.
sendUnsigned(payload, secret) ==
  [body |-> payload, signature |-> {}]

\* The request send(payload) builds: the payload as body, and the
\* X-Webhook-Signature header (a set: empty when the header is not set) when
\* a secret is configured.
send(payload, secret) ==
  [body |-> payload,
   signature |-> IF secret # "" THEN {computeHMAC(payload, secret)} ELSE {}]

\* no delivery in progress
NoDelivery ==
  [pc |-> "idle", event |-> 0, secret |-> "", retries |-> 0, payload |-> <<>>,
   attempt |-> 0, sleepK |-> 0, sleep |-> Small(0), req |-> {}, result |-> "none"]

\* deliver(qe) is called for event e by an emitter built with secret k and
\* MaxRetries n
NewDelivery(e, k, n) ==
  [NoDelivery EXCEPT !.pc = "marshal", !.event = e, !.secret = k,
                     !.retries = NewEmitterRetries(n)]

DIdle == dl = NoDelivery

DInit ==
  dl \in {NewDelivery(e, k, n) : e \in DEvents, k \in Secrets, n \in 0..MaxDeliverRetries}

\* deliver: json.Marshal of the event, once, before the loop.
DMarshal ==
  /\ dl.pc = "marshal"
  /\ dl' = [dl EXCEPT !.pc = "loop", !.payload = Marshal(dl.event)]

\* One iteration of deliver's loop: before a retry the backoff, then
\* e.send(payload) and the branch on the receiver's answer ok.
DAttempt(ok) ==
  LET a == dl.attempt
      slept == IF a > 0 THEN [dl EXCEPT !.sleepK = a, !.sleep = Backoff(a)] ELSE dl
      sentd == [slept EXCEPT !.req = {send(dl.payload, dl.secret)}]
  IN
  /\ dl.pc = "loop"
  /\ dl' = IF ok
             THEN [sentd EXCEPT !.pc = "done", !.result = "delivered"]
             ELSE IF a + 1 <= 0 + dl.retries
               THEN [sentd EXCEPT !.attempt = a + 1]
               ELSE [sentd EXCEPT !.pc = "done", !.result = "dropped"]

\* deliver's select before a retry takes ctx.Done: return.
DCancel ==
  /\ dl.pc = "loop"
  /\ dl.attempt > 0
  /\ dl' = [dl EXCEPT !.pc = "done", !.result = "cancelled"]

(***************************************************************************)
(* HTTP API: the middleware chain in front of the routes.                  *)
(***************************************************************************)
VARIABLES
  web     \* the server: [apiKey, req, status, reached, recovered, alive]

wvars == <<web>>

\* the values of cfg.APIKey: not configured, or a key
APIKeys == {"", "k1"}

\* request methods
Methods == {"GET", "POST", "OPTIONS"}

\* r.URL.Path as its segments: <<>> is "/", <<"auth", "init">> is "/auth/init"
Paths == {<<>>, <<"health">>, <<"healthz">>, <<"auth">>, <<"auth", "init">>,
          <<"auth", "qr">>, <<"messages", "text">>, <<"sync", "stop">>}

\* the X-API-Key header; "" is absent
KeyHeaders == {"", "k1", "k2"}

\* the Authorization header as <<scheme, credentials>>; <<>> is absent
AuthHeaders == {<<>>, <<"Bearer", "k1">>, <<"Bearer", "k2">>, <<"Basic", "k1">>}

Requests == [method : Methods, path : Paths, xApiKey : KeyHeaders, authorization : AuthHeaders]

\* no request served yet
NoRequest == [method |-> "", path |-> <<>>, xApiKey |-> "", authorization |-> <<>>]

\* the outcome of one request: the status written (0: none), whether the
\* route's handler ran, whether a panic was recovered, whether one is unwinding
Outcome(status, reached, recovered) ==
  [status |-> status, reached |-> reached, recovered |-> recovered, panic |-> FALSE]

\* the mux and the route's handler: a panic unwinds to the caller
Route(r, panics) ==
  IF panics THEN [Outcome(0, TRUE, FALSE) EXCEPT !.panic = TRUE]
            ELSE Outcome(200, TRUE, FALSE)

\* APIKeyMiddleware: skip the check for "/", "/health", "/healthz" and every
\* path under "/auth/"; pass everything when no key is configured; else take
\* the key from X-API-Key or, that being empty, from "Bearer <key>".
APIKeyMiddleware(apiKey, r, panics) ==
  LET key == IF r.xApiKey # "" THEN r.xApiKey
             ELSE IF Len(r.authorization) = 2 /\ r.authorization[1] = "Bearer"
                    THEN r.authorization[2] ELSE ""
  IN  IF \/ r.path = <<>>
         \/ r.path = <<"health">>
         \/ r.path = <<"healthz">>
         \/ (Len(r.path) >= 2 /\ r.path[1] = "auth")
        THEN Route(r, panics)
      ELSE IF apiKey = "" THEN Route(r, panics)
      ELSE IF key # apiKey THEN Outcome(401, FALSE, FALSE)
      ELSE Route(r, panics)

\* CORSMiddleware: an OPTIONS request is answered 200 at once.
CORSMiddleware(apiKey, r, panics) ==
  IF r.method = "OPTIONS" THEN Outcome(200, FALSE, FALSE)
                          ELSE APIKeyMiddleware(apiKey, r, panics)

\* RecoveryMiddleware: a panic of anything inside is recovered, logged and
\* answered 500.
RecoveryMiddleware(apiKey, r, panics) ==
  LET inner == CORSMiddleware(apiKey, r, panics)
  IN  IF inner.panic THEN Outcome(500, inner.reached, TRUE) ELSE inner

\* NewServer with cfg.APIKey = k
NewServer(k) ==
  web = [apiKey |-> k, req |-> NoRequest, out |-> Outcome(0, FALSE, FALSE), alive |-> TRUE]

\* the server as the other specifications leave it
WIdle == NewServer("")

WInit == \E k \in APIKeys : NewServer(k)

\* The server serves one request through the chain; an unrecovered panic of
\* the request's goroutine ends the process.
ServeHTTP(r, panics) ==
  LET out == RecoveryMiddleware(web.apiKey, r, panics) IN
  /\ web.alive
  /\ web' = [web EXCEPT !.req = r, !.out = out, !.alive = ~out.panic]

(***************************************************************************)
(* Manager.mu and the client's handler list: who holds which lock.         *)
(***************************************************************************)
VARIABLES
  lk              \* the two locks and the position of each goroutine that uses them

lvars == <<lk>>

\* the kinds of event whose branch of the ingest handler calls m.App()
LockedKinds == {"message", "history"}

\* No lock held: Manager.mu (muW its writer, muR its readers, muPend the
\* callers blocked in Lock) and the lock of the client's handler list (hlR
\* the dispatches running the handlers under its read lock).
NoLocks ==
  [muW |-> "", muR |-> {}, muPend |-> {}, hlR |-> {},
   stop |-> "idle", disp |-> "idle", kind |-> "", api |-> "idle", ctl |-> "idle"]

LIdle == lk = NoLocks

\* sync.RWMutex: Lock waits for the writer and for every reader
CanLock == lk.muW = "" /\ lk.muR = {}

\* sync.RWMutex: RLock waits for the writer, and for a caller blocked in Lock
CanRLock == lk.muW = "" /\ lk.muPend = {}

\* Manager.Stop is called: it blocks in m.mu.Lock().
StopCall ==
  /\ lk.stop = "idle"
  /\ starts > 0
  /\ ~stopped
  /\ lk' = [lk EXCEPT !.stop = "lock", !.muPend = @ \cup {"stop"}]

\* Stop holds m.mu; m.cancel(), then the branch that leads to
\* RemoveEventHandler.
StopLock ==
  /\ lk.stop = "lock"
  /\ CanLock
  /\ lk' = [lk EXCEPT !.muW = "stop", !.muPend = @ \ {"stop"},
                      !.stop = IF app = "open" /\ eventHandlerID # 0 /\ waOpen
                                 THEN "remove" ELSE "close"]

\* m.app.WA().RemoveEventHandler(id): the client takes the write lock of its
\* handler list, which waits for the dispatches that run handlers.
StopRemove ==
  /\ lk.stop = "remove"
  /\ lk.hlR = {}
  /\ lk' = [lk EXCEPT !.stop = "close"]

\* The rest of Stop and the deferred m.mu.Unlock().
StopReturn ==
  /\ lk.stop = "close"
  /\ Stop
  /\ lk' = [lk EXCEPT !.stop = "idle", !.muW = ""]

\* The client dispatches an event of kind k: it runs the ingest handler
\* under the read lock of its handler list.
Dispatch(k) ==
  /\ lk.disp = "idle"
  /\ app = "open"
  /\ waOpen
  /\ ingestH # {}
  /\ lk' = [lk EXCEPT !.disp = "handler", !.kind = k, !.hlR = @ \cup {"disp"}]

\* handleIncomingMessage / handleHistorySync: m.App() takes m.mu.RLock().
HandlerApp ==
  /\ lk.disp = "handler"
  /\ CanRLock
  /\ lk' = [lk EXCEPT !.disp = "app", !.muR = @ \cup {"disp"}]

\* m.App() returns the app reference and releases the read lock.
HandlerAppReturn ==
  /\ lk.disp = "app"
  /\ lk' = [lk EXCEPT !.disp = "store", !.muR = @ \ {"disp"}]

\* The handler returns, and the dispatch releases the handler list.
HandlerReturn ==
  /\ lk.disp = "store"
  /\ lk' = [lk EXCEPT !.disp = "idle", !.kind = "", !.hlR = @ \ {"disp"}]

\* IsSyncRunning: m.mu.RLock().
ApiRLock ==
  /\ lk.api = "idle"
  /\ CanRLock
  /\ lk' = [lk EXCEPT !.api = "reading", !.muR = @ \cup {"api"}]

\* IsSyncRunning: the deferred m.mu.RUnlock().
ApiRUnlock ==
  /\ lk.api = "reading"
  /\ lk' = [lk EXCEPT !.api = "idle", !.muR = @ \ {"api"}]

\* Manager.StopSync is called: it blocks in m.mu.Lock().
CtlCall ==
  /\ lk.ctl = "idle"
  /\ lk' = [lk EXCEPT !.ctl = "lock", !.muPend = @ \cup {"ctl"}]

\* StopSync holds m.mu.
CtlLock ==
  /\ lk.ctl = "lock"
  /\ CanLock
  /\ lk' = [lk EXCEPT !.ctl = "locked", !.muW = "ctl", !.muPend = @ \ {"ctl"}]

\* StopSync: the error when no worker runs, else syncCancel; then the
\* deferred m.mu.Unlock().
CtlReturn ==
  /\ lk.ctl = "locked"
  /\ IF Serving /\ syncRunning /\ ~syncCancelled THEN StopSync ELSE UNCHANGED mvars
  /\ lk' = [lk EXCEPT !.ctl = "idle", !.muW = ""]

(***************************************************************************)
(* StateMachine: its listeners and the calls that notify them.             *)
(***************************************************************************)
VARIABLES
  ln              \* the listeners, the calls under way, what each listener was told

nvars == <<ln>>

\* the callbacks handed to OnStateChange
Observers == {"o1", "o2"}

\* the goroutines that call the setters of the state machine
Setters == {"t1", "t2"}

\* a setter call not under way
IdleCall == [pc |-> "idle", old |-> "", new |-> "", snap |-> <<>>, i |-> 0]

\* NewStateMachine with the listeners ls registered: no call under way,
\* nothing reported; hist is the sequence of the changes of sm.state since
\* each listener was registered, in the order they took effect.
NewStateMachine(ls) ==
  ln = [listeners |-> ls,
        call |-> [t \in Setters |-> IdleCall],
        log |-> [o \in Observers |-> <<>>],
        hist |-> [o \in Observers |-> <<>>],
        calls |-> 0]

NIdle == NewStateMachine(<<>>)

\* the listeners registered
Registered == {ln.listeners[i] : i \in 1..Len(ln.listeners)}

\* the history once sm.state has changed from old to new
Changed(old, new) ==
  [o \in Observers |->
     IF o \in Registered /\ old # new THEN Append(ln.hist[o], <<old, new>>) ELSE ln.hist[o]]

\* What the caller t keeps when it leaves the locked part of SetState or
\* SetError: old and new state and the slice of listeners it read.
Leaving(t, old, new) ==
  [ln EXCEPT !.call[t] = IF old # new /\ ln.listeners # <<>>
                           THEN [pc |-> "notify", old |-> old, new |-> new,
                                 snap |-> ln.listeners, i |-> 1]
                           ELSE IdleCall,
             !.hist = Changed(old, new),
             !.calls = @ + 1]

\* OnStateChange(fn): append under the lock.
OnStateChange(o) ==
  /\ o \notin Registered
  /\ ln' = [ln EXCEPT !.listeners = Append(@, o)]
  /\ UNCHANGED smvars

\* SetState(s) by t, the part under sm.mu.
SmSetState(t, s) ==
  /\ ln.call[t].pc = "idle"
  /\ ln.calls < MaxChanges
  /\ SetState(s)
  /\ ln' = Leaving(t, state, s)

\* SetError(err) by t, the part under sm.mu.
SmSetError(t) ==
  /\ ln.call[t].pc = "idle"
  /\ ln.calls < MaxChanges
  /\ SetError
  /\ ln' = Leaving(t, state, "error")

\* SetQRCode(code) by t: the whole call is under sm.mu and calls no listener.
SmSetQRCode(t) ==
  /\ ln.call[t].pc = "idle"
  /\ ln.calls < MaxChanges
  /\ \E q \in (1..MaxQR) \ {qrCode} : SetQRCode(q)
  /\ ln' = [ln EXCEPT !.hist = Changed(state, "pairing"), !.calls = @ + 1]

\* SetState / SetError by t after sm.mu.Unlock(): the next fn(old, new) of
\* the loop over the listeners read under the lock.
SmNotify(t) ==
  LET c == ln.call[t]
      o == c.snap[c.i]
  IN
  /\ c.pc = "notify"
  /\ ln' = [ln EXCEPT !.log[o] = Append(@, <<c.old, c.new>>),
                      !.call[t] = IF c.i < Len(c.snap) THEN [c EXCEPT !.i = @ + 1]
                                                       ELSE IdleCall]
  /\ UNCHANGED smvars

vars == <<mvars, evars, ivars, ovars, dvars, wvars, lvars, nvars>>

\* a step of the emitter leaves the manager and the store alone
OnlyEmitter == UNCHANGED <<mvars, ivars, ovars, dvars, wvars, lvars, nvars>>

\* a step of the manager leaves the emitter and the store alone
OnlyManager == UNCHANGED <<evars, ivars, ovars, dvars, wvars, lvars, nvars>>

\* a step of the ingest path leaves the manager's fields and the emitter alone
OnlyIngest == UNCHANGED <<mvars, evars, ovars, dvars, wvars, lvars, nvars>>

\* a step of a send or a download leaves all but the rows of the store alone
OnlyOps == UNCHANGED <<mvars, evars, handlers, called, ing, last, dvars, wvars, lvars, nvars>>

\* a step of deliver leaves everything else alone
OnlyDelivery == UNCHANGED <<mvars, evars, ivars, ovars, wvars, lvars, nvars>>

\* a request to the API changes nothing but the server's record of it
OnlyWeb == UNCHANGED <<mvars, evars, ivars, ovars, dvars, lvars, nvars>>

\* a step that takes or releases a lock leaves everything else alone
OnlyLocks == UNCHANGED <<mvars, evars, ivars, ovars, dvars, wvars, nvars>>

\* the return of a call made under Manager.mu also changes the Manager
OnlyLocksAndManager == UNCHANGED <<evars, ivars, ovars, dvars, wvars, nvars>>

\* a step of the emitter, of a caller of Emit or Stop, or of a worker
ENext ==
  \/ EStart /\ OnlyEmitter
  \/ Emit /\ OnlyEmitter
  \/ \E w \in BagToSet(worker) : WorkerSelect(w) /\ OnlyEmitter
  \/ \E w \in BagToSet(worker) : WorkerAttempt(w) /\ OnlyEmitter
  \/ EStop /\ OnlyEmitter
  \/ EStopReturn /\ OnlyEmitter

\* the goroutines of the Manager, which run without outside input
MTasks ==
  \/ ~panicked /\ CasBegin /\ OnlyManager
  \/ ~panicked /\ CasOpen /\ OnlyManager
  \/ ~panicked /\ CasConnect /\ OnlyManager
  \/ ~panicked /\ CasSync /\ OnlyManager
  \/ ~panicked /\ RunSyncRegister /\ OnlyManager
  \/ ~panicked /\ RunSyncExit /\ OnlyManager
  \/ ~panicked /\ StartSyncRun /\ OnlyManager
  \/ \E c \in AuthCallers : ~panicked /\ AuthOpen(c) /\ OnlyManager
  \/ \E c \in AuthCallers : ~panicked /\ AuthSubscribe(c) /\ OnlyManager
  \/ \E c \in AuthCallers : ~panicked /\ AuthConnectReturn(c) /\ OnlyManager
  \/ \E c \in AuthCallers : ~panicked /\ AuthWait(c) /\ OnlyManager
  \/ \E c \in AuthCallers : ~panicked /\ AuthFinish(c) /\ OnlyManager
  \/ \E c \in AuthCallers : ~panicked /\ AuthStartSync(c) /\ OnlyManager

\* the calls of the API and the events of the protocol client
MCalls ==
  \/ ~panicked /\ Start /\ OnlyManager
  \/ ~panicked /\ Stop /\ OnlyManager
  \/ ~panicked /\ StartSync /\ OnlyManager
  \/ ~panicked /\ StopSync /\ OnlyManager
  \/ ~panicked /\ Logout /\ OnlyManager
  \/ \E c \in FirstCaller : ~panicked /\ AuthCall(c) /\ OnlyManager
  \/ \E c \in AuthCallers : ~panicked /\ AuthQR(c) /\ OnlyManager
  \/ ~panicked /\ EvPairSuccess /\ OnlyManager
  \/ ~panicked /\ EvPairError /\ OnlyManager
  \/ ~panicked /\ EvConnected /\ OnlyManager
  \/ ~panicked /\ EvDisconnected /\ OnlyManager
  \/ ~panicked /\ EvMessage /\ OnlyManager

\* a step of the manager; after a nil-pointer panic the process is gone
MNext == MTasks \/ MCalls

\* a step of the ingest path
INext ==
  \/ \E h \in Callbacks : OnMessage(h) /\ OnlyIngest
  \/ \E env \in Envelopes : LiveUpsert(env) /\ OnlyIngest
  \/ LiveNotify /\ OnlyIngest
  \/ \E env \in Envelopes : HistoryUpsert(env) /\ OnlyIngest

\* the emitter as main leaves it when no webhook URL is configured
EIdle == NewEmitter("", 0, "ok")

\* the manager before Start, for the specification of the emitter
MIdle == MInit /\ authed = FALSE

\* the manager connected with a stored session, its sync worker waiting
MConnected ==
  /\ state = "connected"
  /\ qrCode = 0
  /\ lastError = FALSE
  /\ app = "open"
  /\ waOpen = TRUE
  /\ lockHeld = TRUE
  /\ lockField = TRUE
  /\ starts = 1
  /\ stopped = FALSE
  /\ ctxCancelled = FALSE
  /\ syncRunning = TRUE
  /\ syncCancelled = FALSE
  /\ eventHandlerID = 1
  /\ ingestH = {1}
  /\ nextID = 1
  /\ pairH = {}
  /\ authed = TRUE
  /\ connected = TRUE
  /\ cas = "done"
  /\ auth = [c \in AuthCallers |-> IdleAuth]
  /\ sw = "waiting"
  /\ starters = 0
  /\ copies = 0
  /\ panicked = FALSE

\* Init of the manager specification: the emitter idle, nothing ingested
SpecInit == MInit /\ EIdle /\ IInit /\ OInit /\ DIdle /\ WIdle /\ LIdle /\ NIdle

\* Init of the emitter specification: the manager before Start
EmitterInit == EInit /\ MIdle /\ IInit /\ OInit /\ DIdle /\ WIdle /\ LIdle /\ NIdle

\* Init of the ingest specification: the manager connected, the emitter idle
IngestInit == IInit /\ MConnected /\ EIdle /\ OInit /\ DIdle /\ WIdle /\ LIdle /\ NIdle

Spec == SpecInit /\ [][MNext]_vars

FairSpec == Spec /\ WF_vars(MTasks)

EmitterSpec == EmitterInit /\ [][ENext]_vars

IngestSpec == IngestInit /\ [][INext]_vars

\* Init of the operations specification: the manager connected, nothing stored
OpsInit == OInit /\ IInit /\ MConnected /\ EIdle /\ DIdle /\ WIdle /\ LIdle /\ NIdle

\* a send, a download, or a change of the connection or the session under them
ONext ==
  \/ \E valid \in BOOLEAN, text \in {0, 1} : SendTextCall(valid, text) /\ OnlyOps
  \/ \E valid \in BOOLEAN, caption \in {0, 1} : SendFileCall(valid, caption) /\ OnlyOps
  \/ SendFileUpload /\ OnlyOps
  \/ ClientSend /\ OnlyOps
  \/ StoreSent /\ OnlyOps
  \/ \E id \in MsgIds : DownloadCall(id) /\ OnlyOps
  \/ DownloadFetch /\ OnlyOps
  \/ DownloadMark /\ OnlyOps
  \/ EvDisconnected /\ OnlyManager
  \/ EvConnected /\ OnlyManager
  \/ Stop /\ OnlyManager
  \/ Logout /\ OnlyManager

OpsSpec == OpsInit /\ [][ONext]_vars

\* Init of the delivery specification: the manager before Start, the emitter idle
DeliverInit == DInit /\ MIdle /\ EIdle /\ IInit /\ OInit /\ WIdle /\ LIdle /\ NIdle

\* a step of deliver
DNext ==
  \/ DMarshal /\ OnlyDelivery
  \/ \E ok \in BOOLEAN : DAttempt(ok) /\ OnlyDelivery
  \/ DCancel /\ OnlyDelivery

DeliverSpec == DeliverInit /\ [][DNext]_vars

\* a send that has the id of its message and is about to write the Store
Storing == [kind : {"text", "file"}, pc : {"store"}, id : MsgIds, text : {0, 1},
            target : {0}, ready : {TRUE}, pathAtCall : {0}, calledClient : {TRUE},
            wroteStore : {FALSE}]

\* Init of the upsert specification: the manager connected, the Store empty,
\* no send under way or one about to write
UpsertInit ==
  /\ IInit /\ MConnected /\ EIdle /\ DIdle /\ WIdle /\ LIdle /\ NIdle
  /\ ret = NoRet
  /\ \/ op = IdleOp /\ sent = {}
     \/ \E o \in Storing : op = o /\ sent = {o.id}

\* the upserts of live events, of history syncs and of a send, in any order
UNext ==
  \/ \E env \in Envelopes : LiveUpsert(env) /\ OnlyIngest
  \/ LiveNotify /\ OnlyIngest
  \/ \E env \in Envelopes : HistoryUpsert(env) /\ OnlyIngest
  \/ StoreSent /\ OnlyOps

UpsertSpec == UpsertInit /\ [][UNext]_vars

\* env is the message ingested before: the client delivers one message again
Replayed(env) ==
  IF last = NoLast
    THEN TRUE
    ELSE env.id = last.id /\ env.media = last.media /\ env.text = store[last.id].text

\* Init of the replay specification: the manager connected, the Store empty
ReplayInit == IInit /\ MConnected /\ EIdle /\ OInit /\ DIdle /\ WIdle /\ LIdle /\ NIdle

\* live events and history syncs that all carry the same message
RNext ==
  \/ \E h \in Callbacks : OnMessage(h) /\ OnlyIngest
  \/ \E env \in Envelopes : Replayed(env) /\ LiveUpsert(env) /\ OnlyIngest
  \/ LiveNotify /\ OnlyIngest
  \/ \E env \in Envelopes : Replayed(env) /\ HistoryUpsert(env) /\ OnlyIngest

ReplaySpec == ReplayInit /\ [][RNext]_vars

\* Init of the API specification: the manager before Start, nothing else running
WebInit == WInit /\ MIdle /\ EIdle /\ IInit /\ OInit /\ DIdle /\ LIdle /\ NIdle

\* a client sends a request; the route's handler may panic
WNext == \E r \in Requests, panics \in BOOLEAN : ServeHTTP(r, panics) /\ OnlyWeb

WebSpec == WebInit /\ [][WNext]_vars

(***************************************************************************)
(* Service Manager: properties.                                            *)
(***************************************************************************)

\* C1: after a protocol Disconnected event has moved the Manager to
\* Disconnected, the client still authenticated and Stop not called, the
\* Manager eventually sets the state to Connecting (a reconnect attempt),
\* unless Connected is reached, the session is logged out or the Manager is
\* stopped first.
C1_ReconnectsAfterDisconnect ==
  (state = "disconnected" /\ app = "open" /\ authed /\ ~stopped /\ ~panicked)
    ~> (state \in {"connecting", "connected"} \/ stopped \/ ~authed \/ panicked)

\* C3: at every moment at most one ingest event handler is registered with
\* the protocol client, so a live message event is stored and fanned out at
\* most once.
C3_SingleSubscriber == Cardinality(ingestH) <= 1 /\ copies <= 1

\* C4: an InitiateAuth flow sets the state to Connected only after its
\* pairing handler has observed a Connected event.
C4_ConnectedOnlyAfterEvent ==
  \A c \in AuthCallers : auth[c].pc = "sync" => auth[c].sawConn

\* C5: when an InitiateAuth flow leaves its wait because of a PairError, the
\* elapsed 30 s without authentication or a cancelled context, the state is
\* Error when the call returns.
C5_FailedFlowEndsInError ==
  [][\A c \in AuthCallers :
       (auth[c].pc = "wait" /\ auth'[c].pc = "idle") => state' = "error"]_vars

\* C20: in every state in which the Manager is Connected, QRCode() returns
\* the empty string and StatusInfo().HasQR is false.
C20_NoQRWhenConnected ==
  state = "connected" => (QRCode = 0 /\ ~StatusInfo.hasQR)

\* a pairing flow has seen Connected and entered state Connected
C20_Witness ==
  /\ state = "connected"
  /\ StatusInfo.ready
  /\ \E c \in AuthCallers : auth[c].pc = "sync" /\ auth[c].sawConn

(***************************************************************************)
(* Ingest: properties.                                                     *)
(***************************************************************************)

\* C2: every on_message callback invocation for a message happens after the
\* Store upsert of that message has committed; no callback is invoked for a
\* message whose write did not commit.
C2_CommitBeforeFanOut ==
  \A x \in called : x.committed /\ store[x.id].present

\* C6: for a live or history-sync message that carries media metadata,
\* ingest writes every present media field to the Store row.
C6_MediaFieldsStored ==
  last.id # "" =>
    \A f \in MediaFields : last.media[f] # 0 => store[last.id].media[f] = last.media[f]

(***************************************************************************)
(* Webhook Emitter: properties.                                            *)
(***************************************************************************)

\* the events a worker has pulled from the queue or that are still in it
Accepted == {e \in Events : outcome[e] \notin {"none", "dropped", "panic"}}

\* the events for which at least one e.send was made
Dispatched == {e \in Events : att[e] > 0}

\* every pushed event is settled: nothing queued, no worker inside deliver
Quiescent ==
  /\ emitted = NumEvents
  /\ queue = <<>>
  /\ started
  /\ \A w \in BagToSet(worker) : w.pc = "idle"

\* C7: when the emitter is stopped gracefully, every event that was in the
\* queue at that moment is still pulled by a worker and given a delivery
\* attempt before the workers exit.  Stated on the state in which Stop has
\* returned: every accepted event has had at least one e.send.
C7_StopDrainsQueue ==
  (stopPc = "done" /\ started) => \A e \in Accepted : att[e] >= 1

\* C8: an event whose every delivery attempt fails receives exactly
\* 1 + max_retries attempts, max_retries being the configured value, and is
\* then dropped; with max_retries = 0 exactly one attempt is made.
C8_AttemptsAreOnePlusConfigured ==
  \A e \in Events : outcome[e] = "exhausted" => att[e] = 1 + cfgRetries

\* C9: Emit returns without blocking its caller in every state of a running
\* emitter: queue below capacity, queue at capacity, workers busy in a
\* request or in a retry backoff, workers not yet started.  A call that can
\* be made can complete in that same state.
C9_EmitNeverBlocks ==
  (emitted < NumEvents /\ ~qClosed) => ENABLED Emit

\* C9 witness: an Emit found the queue at capacity and dropped its event
\* while a worker was sleeping in a retry backoff.
C9_Witness ==
  /\ url # ""
  /\ ~qClosed
  /\ Len(queue) = QueueCap
  /\ \E e \in Events : outcome[e] = "dropped"
  /\ \E w \in BagToSet(worker) : w.pc = "busy" /\ w.attempt > 0

\* the scenario of C10: max_retries = 2, a receiver that answers 500 to the
\* first attempt of each event and 200 to the second, no Stop
Scenario10 ==
  /\ url = "u"
  /\ cfgRetries = 2
  /\ receiver = "flaky"
  /\ stopPc = "none"

Holders(e) == {w \in BagToSet(worker) : w.pc = "busy" /\ w.ev = e}

\* event e is in the hands of exactly one party: the queue (once) or one worker
SingleOwner(e) ==
  /\ Cardinality(Holders(e)) <= 1
  /\ \A w \in Holders(e) : CopiesIn(w, worker) = 1
  /\ Cardinality({i \in 1..Len(queue) : queue[i] = e}) + Cardinality(Holders(e)) <= 1

\* the number of the request the receiver answers 2xx first
FirstSuccess == IF receiver = "flaky" THEN 2 ELSE 1

C12_PairingHandlerReleased ==
  \A c \in AuthCallers : c \in pairH => auth[c].pc \in {"connect", "wait", "finish"}

\* a flow that showed a QR code has returned on ctx.Done, its handler removed
C12_Witness ==
  \E c \in AuthCallers :
    auth[c].pc = "idle" /\ c \notin pairH /\ state = "pairing" /\ qrCode # 0 /\ ~panicked

\* C13: once Stop has returned, no ingest handler is registered with the
\* client, the app (client and Store) is closed, the lock is released and the
\* state is Disconnected, whatever background tasks ran when Stop was called.
C13_StopReleasesEverything ==
  stopped => /\ ingestH = {}
             /\ app = "nil"
             /\ ~lockHeld
             /\ state = "disconnected"

(***************************************************************************)
(* Send and download operations: properties.                               *)
(***************************************************************************)

\* C14: SendText and SendFile called while the state is not Connected fail
\* with the not-ready error, call no send or upload of the client and write
\* nothing to the Store.
C14_NotReadySendsRejected ==
  /\ (ret.kind \in {"text", "file"} /\ ~ret.ready) =>
       (ret.result = "notready" /\ ~ret.calledClient /\ ~ret.wroteStore)
  /\ op.kind \in {"text", "file"} => op.ready

\* after an earlier message was sent, a SendFile in state Disconnected was refused
C14_Witness ==
  /\ ret.kind = "file"
  /\ ~ret.ready
  /\ ret.result = "notready"
  /\ state = "disconnected"
  /\ sent # {}

\* C15: DownloadMedia for a message whose local_path is set in the Store
\* returns that local_path and does not call the client's download.
C15_DownloadedPathReturned ==
  (ret.kind = "download" /\ ret.pathAtCall # 0) =>
    (ret.result = "ok" /\ ret.path = ret.pathAtCall /\ ~ret.calledClient)

\* C16: after DownloadMedia has returned success with path p, the row of
\* the message has local_path = p and downloaded_at set.
C16_DownloadRecorded ==
  (ret.kind = "download" /\ ret.result = "ok") =>
    (store[ret.id].localPath = ret.path /\ store[ret.id].downloadedAt)

\* C17: whenever SendText has returned a message id, the Store has a row
\* under that id with from_me = true and the text sent.
C17_SentTextStored ==
  (ret.kind = "text" /\ ret.result = "ok") =>
    (store[ret.id].present /\ store[ret.id].fromMe /\ store[ret.id].text = ret.text)

(***************************************************************************)
(* Delivery of one event: properties.                                      *)
(***************************************************************************)

\* C18: every request of a delivery, retries included, has the marshalled
\* event as body and carries X-Webhook-Signature = "sha256=" + hex of the
\* HMAC-SHA256 of that body under the secret when the secret is not empty,
\* and no such header when it is empty.
C18_RequestsSigned ==
  \A r \in dl.req :
    /\ r.body = Marshal(dl.event)
    /\ r.signature = IF dl.secret = "" THEN {}
                     ELSE {[prefix |-> "sha256=",
                            hex |-> [mac |-> "hmac-sha256", key |-> dl.secret, msg |-> r.body]]}

\* the third request of an event was sent under a secret
C18_Witness == dl.attempt >= 2 /\ dl.sleepK = dl.attempt /\ dl.secret # "" /\ dl.req # {}

\* C19: the sleep before retry number k is min(2^(k-1), 30) seconds, for
\* every k >= 1 and every configured max_retries.
C19_BackoffIsCappedPowerOfTwo ==
  dl.sleepK >= 1 =>
    dl.sleep = TimesSecond(Small(IF dl.sleepK <= 5 THEN 2 ^ (dl.sleepK - 1) ELSE MaxBackoff))

(***************************************************************************)
(* Service Manager: further properties.                                    *)
(***************************************************************************)

\* C21: while an InitiateAuth flow that has captured a QR string is still in
\* Connect or in its wait, and Stop is not called, QRCode() keeps returning a
\* captured QR string: a step of any other task leaves a string available.
C21_QRStaysAvailable ==
  [][(Pairing /\ QRCode # 0 /\ Pairing' /\ ~stopped') => QRCode' # 0]_vars


BootTasks ==
  \/ ~panicked /\ CasBegin /\ OnlyManager
  \/ ~panicked /\ CasOpen /\ OnlyManager
  \/ ~panicked /\ CasConnect /\ OnlyManager
  \/ ~panicked /\ CasSync /\ OnlyManager
  \/ ~panicked /\ RunSyncRegister /\ OnlyManager

\* the protocol client delivers message events to a registered ingest handler
Delivering == connected /\ ingestH # {} /\ ~panicked

\* main registers its callbacks and calls Start; then the tasks of Start
\* run and the protocol client delivers its events
BootNext ==
  \/ BootTasks
  \/ \E h \in Callbacks : starts = 0 /\ OnMessage(h) /\ OnlyIngest
  \/ ~panicked /\ Start /\ OnlyManager
  \/ ~panicked /\ EvConnected /\ OnlyManager
  \/ ~panicked /\ EvDisconnected /\ OnlyManager
  \/ \E env \in Envelopes : Delivering /\ LiveUpsert(env) /\ OnlyIngest
  \/ ~panicked /\ LiveNotify /\ OnlyIngest
  \/ \E env \in Envelopes : Delivering /\ HistoryUpsert(env) /\ OnlyIngest

\* Init of the start-up specification
BootInit == MInit /\ EIdle /\ IInit /\ OInit /\ DIdle /\ WIdle /\ LIdle /\ NIdle

BootSpec == BootInit /\ [][BootNext]_vars /\ WF_vars(BootTasks)

C24_LogoutKeepsStore ==
  [][(authed /\ ~authed') => (state' = "unauthenticated" /\ store' = store)]_vars

\* logged out with a sent message recorded in the Store
C24_Witness ==
  /\ ~authed
  /\ state = "unauthenticated"
  /\ \E k \in MsgIds : store[k].present /\ store[k].fromMe


\* StopSync has returned nil, the sync worker has ended, and neither
\* StartSync nor Stop was called since
SyncStopped == syncCancelled /\ ~syncRunning /\ sw = "none" /\ ~stopped /\ starters = 0

\* C25: between a successful StopSync and the next StartSync no message event
\* of the client is stored or fanned out, and the session stays authenticated.
C25_StopSyncStopsIngest ==
  [][/\ SyncStopped => copies' \in {copies, 0}
     /\ (~syncCancelled /\ syncCancelled' /\ ~stopped') => authed' = authed]_vars


(***************************************************************************)
(* HTTP API: properties.                                                   *)
(***************************************************************************)

\* the request carries the configured key as X-API-Key or as Bearer credential
Credential(k, r) == r.xApiKey = k \/ r.authorization = <<"Bearer", k>>

\* the endpoints /, /health and /healthz, under whatever method
Exempted(r) == r.path \in {<<>>, <<"health">>, <<"healthz">>}

\* C26: with an API key configured, a request to any endpoint other than
\* /, /health and /healthz that carries no matching X-API-Key or
\* Bearer credential never reaches the endpoint's handler, and is answered
\* 401 (a CORS preflight 200).
C26_KeyRequired ==
  (web.apiKey # "" /\ web.req # NoRequest /\ ~Exempted(web.req)
     /\ ~Credential(web.apiKey, web.req)) =>
    /\ ~web.out.reached
    /\ web.out.status = IF web.req.method = "OPTIONS" THEN 200 ELSE 401


(***************************************************************************)
(* Store: properties of the message upsert.                                *)
(***************************************************************************)

\* C27: no upsert of a message, whether by a live event, a history sync or a
\* send, in any order, replaces a non-empty media metadata field of its row
\* with an empty value.
C27_MediaNeverCleared ==
  [][\A k \in MsgIds, f \in MediaFields :
       store[k].media[f] # 0 => store'[k].media[f] # 0]_vars

\* the row of a sent file was upserted again by a history sync, which carries
\* no media metadata, and has kept its media key
C27_Witness ==
  \E k \in MsgIds :
    /\ last.id = k
    /\ last.via = "history"
    /\ ret.kind = "file"
    /\ ret.id = k
    /\ ret.wroteStore
    /\ ~store[k].fromMe
    /\ store[k].media.mediaKey # 0


\* C28: after any sequence of live and history-sync ingests of one message m
\* the Store holds one row, that of m, with the complete media metadata of m.
C28_ReplayGivesCompleteRow ==
  last.id # "" =>
    /\ store[last.id].present
    /\ store[last.id].media = last.media
    /\ \A k \in MsgIds \ {last.id} : ~store[k].present


(***************************************************************************)
(* Ingest: properties of the fan-out.                                      *)
(***************************************************************************)

C30_PanicsRecovered == ~ePanicked


(***************************************************************************)
(* Manager.mu: properties.                                                 *)
(***************************************************************************)

\* Init of the lock specification: the manager connected, its ingest handler
\* registered
LockInit == LIdle /\ MConnected /\ EIdle /\ IInit /\ OInit /\ DIdle /\ WIdle /\ NIdle

\* a step of Stop, of the client's dispatch, of a reader or of StopSync
LNext ==
  \/ StopCall /\ OnlyLocks
  \/ StopLock /\ OnlyLocks
  \/ StopRemove /\ OnlyLocks
  \/ StopReturn /\ OnlyLocksAndManager
  \/ \E k \in LockedKinds : Dispatch(k) /\ OnlyLocks
  \/ HandlerApp /\ OnlyLocks
  \/ HandlerAppReturn /\ OnlyLocks
  \/ HandlerReturn /\ OnlyLocks
  \/ ApiRLock /\ OnlyLocks
  \/ ApiRUnlock /\ OnlyLocks
  \/ CtlCall /\ OnlyLocks
  \/ CtlLock /\ OnlyLocks
  \/ CtlReturn /\ OnlyLocksAndManager

LockSpec == LockInit /\ [][LNext]_vars

\* Stop holds Manager.mu and waits in RemoveEventHandler for a dispatch
StopWaitsForDispatch == lk.stop = "remove" /\ lk.muW = "stop" /\ "disp" \in lk.hlR

\* the dispatched handler waits in m.App() for Manager.mu
HandlerWaitsForStop == lk.disp = "handler" /\ lk.muW = "stop"

\* C31: Stop always returns: it is never the case that Stop, holding the
\* Manager mutex, waits for the client to remove the ingest handler while the
\* handler the client is running waits for the Manager mutex.
C31_StopNeverDeadlocks == ~(StopWaitsForDispatch /\ HandlerWaitsForStop)


(***************************************************************************)
(* Service Manager: the tasks that outlive Stop.                           *)
(***************************************************************************)

\* C32: after Stop has closed the app and cleared Manager.app, no background
\* task (connectAndSync, the start of the sync worker, a running
\* InitiateAuth) calls into the app or the client: no task dereferences the
\* nil reference.
C32_NoUseAfterStop == stopped => ~panicked


(***************************************************************************)
(* Concurrent calls of InitiateAuth.                                       *)
(***************************************************************************)

\* the manager started on a data directory without a session, connectAndSync
\* having returned: state Unauthenticated, the client open
MUnauthenticated ==
  /\ state = "unauthenticated"
  /\ qrCode = 0
  /\ lastError = FALSE
  /\ app = "open"
  /\ waOpen = TRUE
  /\ lockHeld = TRUE
  /\ lockField = TRUE
  /\ starts = 1
  /\ stopped = FALSE
  /\ ctxCancelled = FALSE
  /\ syncRunning = FALSE
  /\ syncCancelled = FALSE
  /\ eventHandlerID = 0
  /\ ingestH = {}
  /\ nextID = 0
  /\ pairH = {}
  /\ authed = FALSE
  /\ connected = FALSE
  /\ cas = "done"
  /\ auth = [c \in AuthCallers |-> IdleAuth]
  /\ sw = "none"
  /\ starters = 0
  /\ copies = 0
  /\ panicked = FALSE

PairInit == MUnauthenticated /\ EIdle /\ IInit /\ OInit /\ DIdle /\ WIdle /\ LIdle /\ NIdle

\* the steps of the InitiateAuth calls and the events of the client during
\* pairing
PairNext ==
  \/ \E c \in AuthCallers : AuthCall(c) /\ OnlyManager
  \/ \E c \in AuthCallers : AuthOpen(c) /\ OnlyManager
  \/ \E c \in AuthCallers : AuthSubscribe(c) /\ OnlyManager
  \/ \E c \in AuthCallers : AuthQR(c) /\ OnlyManager
  \/ \E c \in AuthCallers : AuthConnectReturn(c) /\ OnlyManager
  \/ \E c \in AuthCallers : AuthWait(c) /\ OnlyManager
  \/ \E c \in AuthCallers : AuthFinish(c) /\ OnlyManager
  \/ \E c \in AuthCallers : AuthStartSync(c) /\ OnlyManager
  \/ RunSyncRegister /\ OnlyManager
  \/ EvPairSuccess /\ OnlyManager
  \/ EvPairError /\ OnlyManager
  \/ EvConnected /\ OnlyManager

PairSpec == PairInit /\ [][PairNext]_vars

\* the InitiateAuth call c is past its IsAuthed check and has not returned
InFlow(c) == auth[c].pc \in {"subscribe", "connect", "wait", "finish", "sync"}

\* C33: at most one InitiateAuth flow is in progress: never two pairing
\* handlers, never two calls inside the client's Connect, and a call that
\* passes its checks while another flow is in progress changes neither the
\* state nor the QR code of that flow.
C33_SingleAuthFlow ==
  /\ [](Cardinality(pairH) <= 1)
  /\ [](Cardinality({c \in AuthCallers : auth[c].pc = "connect"}) <= 1)
  /\ [][\A c \in AuthCallers :
          (auth[c].pc = "open" /\ auth'[c] # auth[c] /\ \E d \in AuthCallers \ {c} : InFlow(d))
            => (state' = state /\ qrCode' = qrCode)]_vars


\* C34: Stop returns in state Disconnected, and from then until the next
\* Start no step changes the state.
C34_StaysDisconnected ==
  /\ [][(~stopped /\ stopped') => state' = "disconnected"]_vars
  /\ [][(stopped /\ stopped') => state' = state]_vars


(***************************************************************************)
(* Webhook Emitter: Emit after Stop.                                       *)
(***************************************************************************)

\* C35: an Emit made once Stop has closed the queue is discarded: the event
\* is dropped, the queue is left as it is, and the caller does not panic.
C35_EmitAfterStopDiscarded ==
  [][(qClosed /\ emitted' = emitted + 1)
       => (outcome'[emitted'] = "dropped" /\ queue' = queue /\ ~ePanicked')]_vars


(***************************************************************************)
(* State machine: further properties.                                      *)
(***************************************************************************)

\* C36: the state becomes Pairing only from Connecting, by the QR callback
\* of an InitiateAuth call that is inside Connect; a QR callback that comes
\* in any other state leaves the state as it is.
C36_PairingOnlyFromConnecting ==
  [][(state # "pairing" /\ state' = "pairing")
       => (state = "connecting" /\ \E c \in AuthCallers : auth[c].pc = "connect")]_vars


(***************************************************************************)
(* State machine: its listeners.                                           *)
(***************************************************************************)

\* a call of the state machine leaves the rest of the Manager alone
OnlyStateMachine ==
  UNCHANGED <<app, waOpen, lockHeld, lockField, starts, stopped, ctxCancelled, syncRunning,
              syncCancelled, eventHandlerID, ingestH, nextID, pairH, authed, connected,
              cas, auth, sw, starters, copies, panicked,
              evars, ivars, ovars, dvars, wvars, lvars>>

\* the states the callers of SetState ask for
Targets == {"connecting", "connected", "disconnected"}

\* Init of the listener specification: a new state machine with none, one or
\* two listeners registered
ListenInit ==
  /\ \E ls \in {<<>>, <<"o1">>, <<"o1", "o2">>} : NewStateMachine(ls)
  /\ MIdle /\ EIdle /\ IInit /\ OInit /\ DIdle /\ WIdle /\ LIdle

\* a step of a caller of the state machine
NNext ==
  \/ \E o \in Observers : OnStateChange(o) /\ OnlyStateMachine
  \/ \E t \in Setters, s \in Targets : SmSetState(t, s) /\ OnlyStateMachine
  \/ \E t \in Setters : SmSetError(t) /\ OnlyStateMachine
  \/ \E t \in Setters : SmSetQRCode(t) /\ OnlyStateMachine
  \/ \E t \in Setters : SmNotify(t) /\ OnlyStateMachine

ListenSpec == ListenInit /\ [][NNext]_vars

\* each report's old state is the new state of the report before it
Chain(reports) == \A i \in 2..Len(reports) : reports[i][1] = reports[i - 1][2]

\* no setter call is between its unlock and the end of its notifications
Settled == \A t \in Setters : ln.call[t].pc = "idle"

\* C37: every listener is told every change of the state exactly once, as
\* (old, new), in the order the changes took effect: what a listener was told
\* is a chain, and once no call is under way it is the sequence of the
\* changes made since the listener was registered.
C37_ListenersSeeEveryChange ==
  \A o \in Observers :
    /\ Chain(ln.log[o])
    /\ Settled => ln.log[o] = ln.hist[o]


\* no InitiateAuth call is under way
NoAuthFlow == \A c \in AuthCallers : auth[c].pc = "idle"

\* C38: after a Logout the state stays Unauthenticated until the next
\* InitiateAuth, Start or Stop: with the session gone and no InitiateAuth
\* under way, a step that is none of these three leaves the state
\* Unauthenticated.
C38_LogoutIsStable ==
  [][(/\ ~authed /\ state = "unauthenticated" /\ waOpen /\ ingestH # {}
      /\ NoAuthFlow /\ NoAuthFlow'
      /\ stopped' = stopped /\ starts' = starts)
       => state' = "unauthenticated"]_vars


(***************************************************************************)
(* Diagnostics.                                                            *)
(***************************************************************************)

\* C39: GetDiagnostics reports lock_held exactly when the data-directory
\* lock is held, after a failed Start and after Stop too, and Stop releases
\* the lock only when it is held (no second release).
C39_LockHeldIsAccurate ==
  /\ [](GetDiagnostics.lockHeld = lockHeld)
  /\ [][(~stopped /\ stopped' /\ lockField) => lockHeld]_vars


\* C40: an error is recorded only in state Error: in every other state
\* LastError() is nil and StatusInfo().Error is empty.
C40_ErrorOnlyInErrorState == state # "error" => (~lastError /\ ~StatusInfo.error)

====
